---- MODULE Spec2Model ----
(***************************************************************************)
(* A model of the pace42 agent service: the data normalizer                *)
(* (agent-service/src/data/normalizer.py), the weather and activity        *)
(* gathering agents, and the coach Q&A agent                               *)
(* (agent-service/src/agents/coach_qa.py: _plan_action, answer_question    *)
(* and the conversation history), on the Python values that the upstream   *)
(* tool calls and the language model deliver.                              *)
(*                                                                         *)
(* Python values.  A value is a record tagged by t:                        *)
(*   "null"   None                                                         *)
(*   "int"    an int that the code copies or counts but never computes     *)
(*            with (an identifier, a heart rate, a lap number), field n    *)
(*   "num"    a measured quantity (a distance, a duration), field n        *)
(*   "ratio"  the float quotient n / d of two numbers                      *)
(*   "text"   a str whose content s is not JSON text                       *)
(*   "jstr"   a str whose content is the JSON text of the value v          *)
(*   "bool"   True or False, field b                                       *)
(*   "dict"   a dict, field d a function from its keys to their values     *)
(*   "list"   a list, field l the sequence of its elements                 *)
(*   "mmss"   the str "M:SS" that _format_pace builds                      *)
(*   "exc"    not a value: the exception e that an evaluation raised       *)
(*                                                                         *)
(* Numbers.  A "num" counts IEEE-754 binary64 quanta (the smallest positive*)
(* double, 2^-1074): n stands for the float n * 2^-1074.  On such floats   *)
(* x / c for a constant c is integer division rounded to nearest, ties to  *)
(* even (FDiv): exact binary64 arithmetic, gradual underflow included.  A  *)
(* quotient of two such quantities is a float of ordinary magnitude and is *)
(* kept as the exact "ratio".                                              *)
(***************************************************************************)
EXTENDS Integers, Sequences, FiniteSets, TLC

VARIABLES
    input,        \* the raw_data argument of the normalize_activity call
    raw_data,     \* the local raw_data, rebound by the decode steps
    pc,           \* the position in normalize_activity
    decodes,      \* the json.loads calls made while resolving raw_data
    summary,      \* the local summary (a function: the dict's items)
    splits,       \* the local splits (a sequence)
    normalized,   \* the local normalized, then the return value
    raised,       \* the exception that left the call, "none" if none
    raw_zones,    \* the raw_zones argument of the normalize_hr_zones call
    zpc,          \* the position in normalize_hr_zones
    zi,           \* the loop index of normalize_hr_zones
    zones,        \* the local zones
    total_time,   \* the local total_time
    zresult,      \* the return value of normalize_hr_zones
    zraised,      \* the exception that left normalize_hr_zones
    raw_weather,  \* the raw_weather argument of the normalize_weather call
    wpc,          \* the position in normalize_weather
    wresult,      \* the return value of normalize_weather
    wraised,      \* the exception that left normalize_weather
    upstream,     \* what the list_activities tool answers in this run
    num_activities, \* the num_activities argument of gather_data
    gpc,          \* the position in gather_data
    list_call,    \* the arguments of the get_activities call, None before it
    activities_list, \* the local activities_list (a sequence)
    gi,           \* the position of the for loop in activities_list
    activities_processed, \* the local activities_processed
    activity_data, \* the activity_data of the activity being gathered
    fetch,        \* which of the four fetches comes next
    inflight,     \* the upstream calls issued and not yet answered
    calls,        \* the per-activity tool calls so far, with their answers
    gathered_data, \* the local gathered_data, the return value
    llm,          \* self.llm: what the language model may return
    question,     \* the question argument of the answer_question call
    context,      \* its context argument
    qa_activity_id, \* its activity_id argument
    force_answer, \* its force_answer argument
    qpc,          \* the position in answer_question and _plan_action
    is_coachable, \* the local is_coachable of _plan_action
    llm_response, \* what the planner's _call_llm returned
    plan_json,    \* the local plan of _plan_action (the parsed content)
    action,       \* the local action of _plan_action
    reason,       \* the local reason of _plan_action
    needs_user_info, \* the local needs_user_info of _plan_action
    plan,         \* the plan of answer_question
    result,       \* the return value of answer_question
    now,          \* the clock that datetime.utcnow() reads
    conversation_history, \* self.conversation_history
    exchanges     \* every exchange ever appended, since the last clear

avars == <<input, raw_data, pc, decodes, summary, splits, normalized, raised>>
zvars == <<raw_zones, zpc, zi, zones, total_time, zresult, zraised>>
wvars == <<raw_weather, wpc, wresult, wraised>>
gvars == <<upstream, num_activities, gpc, list_call, activities_list, gi,
           activities_processed, activity_data, fetch, inflight, calls,
           gathered_data>>
qvars == <<llm, question, context, qa_activity_id, force_answer, qpc, is_coachable,
           llm_response, plan_json, action, reason, needs_user_info, plan,
           result, now, conversation_history, exchanges>>
vars == <<avars, zvars, wvars, gvars, qvars>>
\* what a call of one function leaves alone: the locals of the other calls
not_avars == <<zvars, wvars, gvars, qvars>>
not_zvars == <<avars, wvars, gvars, qvars>>
not_wvars == <<avars, zvars, gvars, qvars>>
not_gvars == <<avars, zvars, wvars, qvars>>
not_qvars == <<avars, zvars, wvars, gvars>>

----------------------------------------------------------------------------
(* Python values *)

Null == [t |-> "null"]
PyInt(n) == [t |-> "int", n |-> n]
Num(n) == [t |-> "num", n |-> n]
Ratio(n, d) == [t |-> "ratio", n |-> n, d |-> d]
Text(s) == [t |-> "text", s |-> s]
JStr(v) == [t |-> "jstr", v |-> v]
Dict(f) == [t |-> "dict", d |-> f]
List(l) == [t |-> "list", l |-> l]
Bool(b) == [t |-> "bool", b |-> b]
Exc(e) == [t |-> "exc", e |-> e]
Absent == [t |-> "absent"]

IsStr(v) == v.t \in {"text", "jstr"}
IsDict(v) == v.t = "dict"
IsList(v) == v.t = "list"
IsNum(v) == v.t = "num"
IsExc(v) == v.t = "exc"

\* bool(v): None, 0, "", {} and [] are false
Truthy(v) ==
    CASE v.t = "null" -> FALSE
      [] v.t = "num"  -> v.n # 0
      [] v.t = "int"  -> v.n # 0
      [] v.t = "text" -> v.s # ""
      [] v.t = "bool" -> v.b
      [] v.t = "dict" -> DOMAIN v.d # {}
      [] v.t = "list" -> Len(v.l) > 0
      [] OTHER        -> TRUE

\* json.loads(v)
JsonLoads(v) ==
    CASE v.t = "jstr" -> v.v
      [] v.t = "text" -> Exc("JSONDecodeError")
      [] OTHER        -> Exc("TypeError")

\* d.get(k, default) on the items f of a dict
Get(f, k, default) == IF k \in DOMAIN f THEN f[k] ELSE default

\* v == 0
EqZero(v) == IsNum(v) /\ v.n = 0

\* binary64 n / c on quanta: the integer quotient rounded to nearest, ties to even
FDiv(n, c) ==
    LET q == n \div c
        r == n % c
    IN  IF 2 * r < c THEN q
        ELSE IF 2 * r > c THEN q + 1
        ELSE IF q % 2 = 0 THEN q ELSE q + 1

\* v / c for a constant c
DivConst(v, c) == IF IsNum(v) THEN Num(FDiv(v.n, c)) ELSE Exc("TypeError")

\* a / b for two numbers
Quot(a, b) == IF b.n = 0 THEN Exc("ZeroDivisionError") ELSE Ratio(a.n, b.n)

\* the items k: v of a dict literal, none when v is absent
Opt(k, v) == IF v = Absent THEN <<>> ELSE (k :> v)

----------------------------------------------------------------------------
(* normalize_activity and its helpers *)

\* _empty_activity
empty_activity ==
    Dict([activity_id |-> Null, name |-> Text("Unknown"), date |-> Null,
          type |-> Text("running"), distance_km |-> Num(0),
          duration_min |-> Num(0), avg_pace_min_per_km |-> Num(0),
          avg_speed_kmh |-> Num(0), avg_hr |-> Num(0), max_hr |-> Num(0),
          calories |-> Num(0), avg_cadence |-> Num(0),
          training_effect |-> Num(0), laps |-> List(<<>>)])

\* _format_pace(pace): "N/A", or minutes and seconds of the quotient
\* (int() truncates; the seconds are taken in exact arithmetic)
format_pace(pace) ==
    IF pace.n <= 0 THEN Text("N/A")
    ELSE [t |-> "mmss", m |-> pace.n \div pace.d,
          s |-> ((pace.n % pace.d) * 60) \div pace.d]

\* the lap_number that _normalize_laps gives the entry at (1-based) raw
\* position i, when n_valid laps were appended before it
lap_number(i, n_valid) == i

\* the body of the loop of _normalize_laps for a lap that is a dict
normalized_lap(lap, number) ==
    LET distance_m == Get(lap, "distance", Num(0))
        duration_s == Get(lap, "duration", Num(0))
        distance_km == DivConst(distance_m, 1000)
        duration_min == DivConst(duration_s, 60)
    IN  IF IsExc(distance_km) THEN distance_km
        ELSE IF IsExc(duration_min) THEN duration_min
        ELSE
          LET normalized_lap0 ==
                [lap_number |-> PyInt(number), distance_km |-> distance_km,
                 distance_m |-> distance_m, duration_min |-> duration_min,
                 duration_s |-> duration_s,
                 avg_hr |-> Get(lap, "averageHR", Num(0)),
                 max_hr |-> Get(lap, "maxHR", Num(0)),
                 avg_cadence |-> Get(lap, "averageRunCadence", Num(0)),
                 max_cadence |-> Get(lap, "maxRunCadence", Num(0)),
                 elevation_gain |-> Get(lap, "elevationGain", Num(0)),
                 elevation_loss |-> Get(lap, "elevationLoss", Num(0))]
          IN  IF distance_m.n > 0 /\ duration_s.n > 0
              THEN LET pace == Quot(DivConst(duration_s, 60),
                                    DivConst(distance_m, 1000))
                   IN  IF IsExc(pace) THEN pace
                       ELSE Dict(normalized_lap0 @@
                                 [pace_min_per_km |-> pace,
                                  pace_formatted |-> format_pace(pace)])
              ELSE Dict(normalized_lap0 @@
                        [pace_min_per_km |-> Num(0),
                         pace_formatted |-> Text("N/A")])

\* the loop of _normalize_laps from raw position i on, acc the laps appended
RECURSIVE normalize_laps_from(_, _, _)
normalize_laps_from(lap_dtos, i, acc) ==
    IF i > Len(lap_dtos) THEN List(acc)
    ELSE
      LET lap == IF IsStr(lap_dtos[i]) THEN JsonLoads(lap_dtos[i])
                 ELSE lap_dtos[i]
      IN  IF IsExc(lap) THEN normalize_laps_from(lap_dtos, i + 1, acc)
          ELSE IF ~IsDict(lap) THEN normalize_laps_from(lap_dtos, i + 1, acc)
          ELSE
            LET nl == normalized_lap(lap.d, lap_number(i, Len(acc)))
            IN  IF IsExc(nl) THEN nl
                ELSE normalize_laps_from(lap_dtos, i + 1, Append(acc, nl))

\* _normalize_laps(lap_dtos): the list of normalized laps, or the exception
normalize_laps(lap_dtos) == normalize_laps_from(lap_dtos, 1, <<>>)

\* get_splits_safely(data): the list found under lapDTOs, as a sequence
get_splits_safely(data) ==
    LET d1 == IF IsStr(data) THEN JsonLoads(data) ELSE data
    IN  IF IsExc(d1) THEN <<>>
        ELSE IF ~IsDict(d1) THEN <<>>
        ELSE
          LET lap_dtos == Get(d1.d, "lapDTOs", List(<<>>))
          IN  IF IsList(lap_dtos) THEN lap_dtos.l
              ELSE IF IsStr(lap_dtos)
              THEN LET parsed == JsonLoads(lap_dtos)
                   IN  IF ~IsExc(parsed) /\ IsList(parsed) THEN parsed.l
                       ELSE <<>>
              ELSE <<>>

\* the loop that fills valid_splits, from position i on
RECURSIVE valid_splits_from(_, _, _)
valid_splits_from(ss, i, acc) ==
    IF i > Len(ss) THEN acc
    ELSE IF IsDict(ss[i]) THEN valid_splits_from(ss, i + 1, Append(acc, ss[i]))
    ELSE IF IsStr(ss[i])
    THEN LET parsed == JsonLoads(ss[i])
         IN  IF IsExc(parsed) THEN valid_splits_from(ss, i + 1, acc)
             ELSE valid_splits_from(ss, i + 1, Append(acc, parsed))
    ELSE valid_splits_from(ss, i + 1, acc)

valid_splits(ss) == valid_splits_from(ss, 1, <<>>)

\* sum(s.get(key, 0) for s in ss), from position i on with running sum acc
RECURSIVE sum_field_from(_, _, _, _)
sum_field_from(ss, key, i, acc) ==
    IF i > Len(ss) THEN Num(acc)
    ELSE IF ~IsDict(ss[i]) THEN Exc("AttributeError")
    ELSE LET x == Get(ss[i].d, key, Num(0))
         IN  IF ~IsNum(x) THEN Exc("TypeError")
             ELSE sum_field_from(ss, key, i + 1, acc + x.n)

sum_field(ss, key) == sum_field_from(ss, key, 1, 0)

\* a value or the exception that building it raised, divided by c
DivSum(v, c) == IF IsExc(v) THEN v ELSE DivConst(v, c)

\* the activity type read from activityTypeDTO
activity_type(raw) ==
    LET activity_type_dto == Get(raw, "activityTypeDTO", Dict(<<>>))
    IN  IF IsDict(activity_type_dto)
        THEN Get(activity_type_dto.d, "typeKey", Text("running"))
        ELSE Text("running")

\* the first items of normalized
header(raw) ==
    [activity_id |-> Get(raw, "activityId", Null),
     name |-> Get(raw, "activityName", Text("Unnamed Run")),
     date |-> Get(raw, "startTimeGMT", Null),
     type |-> activity_type(raw),
     description |-> Get(raw, "description", Text(""))]

\* the local summary: the items of summaryDTO, none unless it is a dict
summary_of(raw) ==
    LET s == Get(raw, "summaryDTO", Dict(<<>>))
    IN  IF IsDict(s) THEN s.d ELSE <<>>

\* the local splits
splits_of(raw) ==
    LET splits_data == Get(raw, "splits_data", Dict(<<>>))
    IN  IF Truthy(splits_data) THEN get_splits_safely(splits_data)
        ELSE get_splits_safely(Dict(raw))

\* whether the totals come from the splits rather than from the summary
use_splits(sm) ==
    EqZero(Get(sm, "distance", Num(0))) \/ EqZero(Get(sm, "duration", Num(0)))

\* distance_km, duration_min and laps, or the exception raised
totals(sm, ss) ==
    LET distance == Get(sm, "distance", Num(0))
        duration == Get(sm, "duration", Num(0))
        Ok(dk, dm, laps) ==
            IF IsExc(dk) THEN dk
            ELSE IF IsExc(dm) THEN dm
            ELSE IF IsExc(laps) THEN laps
            ELSE [t |-> "ok", distance_km |-> dk, duration_min |-> dm,
                  laps |-> laps]
    IN  IF use_splits(sm)
        THEN LET valid == valid_splits(ss)
             IN  IF Len(valid) > 0
                 THEN Ok(DivSum(sum_field(valid, "distance"), 1000),
                         DivSum(sum_field(valid, "duration"), 60),
                         normalize_laps(valid))
                 ELSE Ok(Num(0), Num(0), List(<<>>))
        ELSE Ok(DivConst(distance, 1000), DivConst(duration, 60),
                IF Len(ss) > 0 THEN normalize_laps(ss) ELSE List(<<>>))

\* avg_pace_min_per_km and avg_speed_kmh, or the exception raised
derived(distance_km, duration_min) ==
    IF distance_km.n > 0 /\ duration_min.n > 0
    THEN LET pace == Quot(duration_min, distance_km)
             speed == Quot(distance_km, DivConst(duration_min, 60))
         IN  IF IsExc(pace) THEN pace
             ELSE IF IsExc(speed) THEN speed
             ELSE [t |-> "ok", avg_pace_min_per_km |-> pace,
                   avg_speed_kmh |-> speed]
    ELSE [t |-> "ok", avg_pace_min_per_km |-> Num(0),
          avg_speed_kmh |-> Num(0)]

\* the other metrics, read from the summary
metrics(sm) ==
    [avg_hr |-> Get(sm, "averageHR", Num(0)),
     max_hr |-> Get(sm, "maxHR", Num(0)),
     min_hr |-> Get(sm, "minHR", Num(0)),
     calories |-> Get(sm, "calories", Num(0)),
     avg_cadence |-> Get(sm, "averageRunCadence", Num(0)),
     max_cadence |-> Get(sm, "maxRunCadence", Num(0)),
     avg_power |-> Get(sm, "averagePower", Num(0)),
     max_power |-> Get(sm, "maxPower", Num(0)),
     training_effect |-> Get(sm, "trainingEffect", Num(0)),
     anaerobic_training_effect |-> Get(sm, "anaerobicTrainingEffect", Num(0)),
     avg_speed_ms |-> Get(sm, "averageSpeed", Num(0)),
     max_speed_ms |-> Get(sm, "maxSpeed", Num(0))]

\* lines 61-206 for raw_data a dict with the items raw: the activity, or the
\* exception raised
build(raw) ==
    LET sm == summary_of(raw)
        tt == totals(sm, splits_of(raw))
    IN  IF IsExc(tt) THEN tt
        ELSE LET dd == derived(tt.distance_km, tt.duration_min)
             IN  IF IsExc(dd) THEN dd
                 ELSE Dict(header(raw)
                           @@ [distance_km |-> tt.distance_km,
                               duration_min |-> tt.duration_min,
                               laps |-> tt.laps]
                           @@ [avg_pace_min_per_km |-> dd.avg_pace_min_per_km,
                               avg_speed_kmh |-> dd.avg_speed_kmh]
                           @@ metrics(sm))

\* normalize_activity(raw): the returned activity, or the exception raised
normalize_activity(raw) ==
    IF ~Truthy(raw) THEN empty_activity
    ELSE
      LET a == IF IsStr(raw) THEN JsonLoads(raw) ELSE raw
      IN  IF IsExc(a) THEN empty_activity
          ELSE
            LET b == IF IsDict(a) /\ "raw_text" \in DOMAIN a.d
                     THEN JsonLoads(a.d["raw_text"]) ELSE a
            IN  IF b = Exc("JSONDecodeError") THEN empty_activity
                ELSE IF IsExc(b) THEN b
                ELSE IF ~IsDict(b) THEN empty_activity
                ELSE build(b.d)

\* after_raw_text as a resolver that follows nested wrappers would have it:
\* a decoded value that again carries raw_text is decoded again
after_raw_text_nested(v) ==
    IF IsDict(v) /\ "raw_text" \in DOMAIN v.d THEN "decode_raw_text"
    ELSE "final_check"

\* the position after the raw_text field was decoded to v
after_raw_text(v) == "final_check"

----------------------------------------------------------------------------
(* The raw payloads *)

\* the longest lapDTOs list
MaxLaps == 2

Lap(distance, duration) == Dict([distance |-> distance, duration |-> duration])

\* lap entries: laps with numeric metrics (one of zero distance, one of zero
\* duration, one whose distance underflows when divided by 1000), laps with
\* a str or None metric, a JSON-encoded lap, a JSON-encoded number, a str
\* that is not JSON, a number
LapEntries ==
    {Lap(Num(60000), Num(36000)), Lap(Num(120000), Num(36000)),
     Lap(Num(0), Num(36000)), Lap(Num(60000), Num(0)),
     Lap(Num(1), Num(36000)),
     Lap(Text("invalid"), Num(36000)), Lap(Num(60000), Null),
     JStr(Lap(Num(60000), Num(36000))), JStr(PyInt(5)), Text("zz"), PyInt(7)}

LapLists == UNION {[1..n -> LapEntries] : n \in 0..MaxLaps}

Summary(distance, duration) ==
    Dict([distance |-> distance, duration |-> duration, averageHR |-> PyInt(150)])

\* summaryDTO: missing, None, zero, numeric, a duration whose minutes
\* underflow when divided by 60, a None distance
Summaries ==
    {Absent, Null, Summary(Num(0), Num(0)), Summary(Num(60000), Num(0)),
     Summary(Num(300000), Num(90000)), Summary(Num(60000), Num(31)),
     Summary(Null, Num(36000))}

Activity(sm, laps) ==
    Dict(("activityId" :> PyInt(12345)) @@ Opt("summaryDTO", sm)
         @@ ("lapDTOs" :> List(laps)))

\* a raw activity with valid laps and a summary
Activity0 ==
    Activity(Summary(Num(300000), Num(90000)), <<Lap(Num(60000), Num(36000))>>)

\* the structured activity objects
ActivityObjects ==
    {Activity(sm, laps) : sm \in Summaries, laps \in LapLists}
    \cup {Dict(<<>>),
          Dict([activityId |-> PyInt(12349), activityName |-> Null,
                startTimeGMT |-> Null, activityTypeDTO |-> Null,
                summaryDTO |-> Null, lapDTOs |-> Null]),
          Dict([activityId |-> PyInt(12350), activityName |-> Text("Test"),
                activityTypeDTO |-> Dict([typeKey |-> Text("running")]),
                summaryDTO |-> Summary(Num(60000), Num(36000))]),
          Dict([activityId |-> PyInt(12351),
                lapDTOs |-> JStr(List(<<Lap(Num(60000), Num(36000))>>))]),
          Dict([activityId |-> PyInt(12352), lapDTOs |-> List(<<>>),
                splits_data |->
                    Dict([lapDTOs |-> List(<<Lap(Num(60000), Num(36000))>>)])]),
          Dict([activityId |-> PyInt(12353),
                splits_data |->
                    JStr(Dict([lapDTOs |->
                                 List(<<Lap(Num(60000), Num(36000))>>)]))])}

\* an object wrapping v under raw_text
Wrap(v) == Dict([raw_text |-> v])

\* other payloads: None, numbers, strs, lists, doubly encoded and nested
\* wrappers, raw_text holding something that is not a str
OtherInputs ==
    {Null, PyInt(0), PyInt(5), Text(""), Text("not json"), List(<<>>),
     List(<<PyInt(1)>>), JStr(PyInt(5)), JStr(List(<<>>)), JStr(JStr(Activity0)),
     Wrap(Activity0), Wrap(Null), Wrap(Text("not json")), Wrap(JStr(PyInt(5))),
     JStr(Wrap(JStr(Activity0))), Wrap(JStr(Wrap(JStr(Activity0)))),
     JStr(Wrap(JStr(Wrap(JStr(Activity0))))),
     Wrap(JStr(Wrap(JStr(Wrap(JStr(Activity0))))))}

\* every activity object in its three encodings, and the other payloads
Inputs ==
    ActivityObjects \cup {JStr(p) : p \in ActivityObjects}
    \cup {Wrap(JStr(p)) : p \in ActivityObjects} \cup OtherInputs

----------------------------------------------------------------------------
(* One call of normalize_activity *)

Idle == /\ input = Null /\ raw_data = Null /\ pc = "idle" /\ decodes = <<>>
        /\ summary = <<>> /\ splits = <<>> /\ normalized = Null
        /\ raised = "none"

ZIdle == /\ raw_zones = Null /\ zpc = "idle" /\ zi = 0 /\ zones = <<>>
         /\ total_time = Num(0) /\ zresult = Null /\ zraised = "none"

WIdle == /\ raw_weather = Null /\ wpc = "idle" /\ wresult = Null
         /\ wraised = "none"

GIdle == /\ upstream = Null /\ num_activities = 0 /\ gpc = "idle"
         /\ list_call = Null /\ activities_list = <<>> /\ gi = 0
         /\ activities_processed = 0 /\ activity_data = <<>> /\ fetch = 0
         /\ inflight = {} /\ calls = <<>> /\ gathered_data = <<>>
QIdle == /\ llm = <<>> /\ question = "" /\ context = Null /\ qa_activity_id = Null
         /\ force_answer = FALSE /\ qpc = "idle" /\ is_coachable = FALSE
         /\ llm_response = Null /\ plan_json = Null /\ action = Null
         /\ reason = Null /\ needs_user_info = Null /\ plan = Null
         /\ result = Null /\ now = 0 /\ conversation_history = <<>>
         /\ exchanges = <<>>

Init ==
    /\ input \in Inputs
    /\ raw_data = input
    /\ pc = "start"
    /\ decodes = <<>>
    /\ summary = <<>>
    /\ splits = <<>>
    /\ normalized = Null
    /\ raised = "none"
    /\ ZIdle
    /\ WIdle
    /\ GIdle
    /\ QIdle

\* return v
Return(v) ==
    /\ normalized' = v
    /\ pc' = "done"
    /\ UNCHANGED <<input, summary, splits, raised>>

\* raise the exception e
Raise(e) ==
    /\ raised' = e.e
    /\ pc' = "raised"
    /\ UNCHANGED <<input, summary, splits, normalized>>

\* if not raw_data: return self._empty_activity()
CheckEmpty ==
    /\ pc = "start"
    /\ IF ~Truthy(raw_data)
       THEN Return(empty_activity)
       ELSE /\ pc' = "decode_str"
            /\ UNCHANGED <<input, summary, splits, normalized, raised>>
    /\ UNCHANGED <<raw_data, decodes, not_avars>>

\* if isinstance(raw_data, str): raw_data = json.loads(raw_data)
DecodeString ==
    /\ pc = "decode_str"
    /\ IF IsStr(raw_data)
       THEN /\ decodes' = Append(decodes, "raw_data")
            /\ IF IsExc(JsonLoads(raw_data))
               THEN Return(empty_activity) /\ UNCHANGED raw_data
               ELSE /\ raw_data' = JsonLoads(raw_data)
                    /\ pc' = "decode_raw_text"
                    /\ UNCHANGED <<input, summary, splits, normalized, raised>>
       ELSE /\ pc' = "decode_raw_text"
            /\ UNCHANGED <<input, raw_data, decodes, summary, splits,
                           normalized, raised>>
    /\ UNCHANGED not_avars

\* if isinstance(raw_data, dict) and "raw_text" in raw_data:
\*     raw_data = json.loads(raw_data["raw_text"])
DecodeRawText ==
    /\ pc = "decode_raw_text"
    /\ IF IsDict(raw_data) /\ "raw_text" \in DOMAIN raw_data.d
       THEN LET parsed == JsonLoads(raw_data.d["raw_text"])
            IN  /\ decodes' = Append(decodes, "raw_text")
                /\ IF parsed = Exc("JSONDecodeError")
                   THEN Return(empty_activity) /\ UNCHANGED raw_data
                   ELSE IF IsExc(parsed)
                   THEN Raise(parsed) /\ UNCHANGED raw_data
                   ELSE /\ raw_data' = parsed
                        /\ pc' = after_raw_text(parsed)
                        /\ UNCHANGED <<input, summary, splits, normalized,
                                       raised>>
       ELSE /\ pc' = "final_check"
            /\ UNCHANGED <<input, raw_data, decodes, summary, splits,
                           normalized, raised>>
    /\ UNCHANGED not_avars

\* if not isinstance(raw_data, dict): return self._empty_activity()
FinalCheck ==
    /\ pc = "final_check"
    /\ IF ~IsDict(raw_data)
       THEN Return(empty_activity)
       ELSE /\ pc' = "extract"
            /\ UNCHANGED <<input, summary, splits, normalized, raised>>
    /\ UNCHANGED <<raw_data, decodes, not_avars>>

\* lines 61-138: the first items of normalized, summary and splits
Extract ==
    /\ pc = "extract"
    /\ normalized' = Dict(header(raw_data.d))
    /\ summary' = summary_of(raw_data.d)
    /\ splits' = splits_of(raw_data.d)
    /\ pc' = "totals"
    /\ UNCHANGED <<input, raw_data, decodes, raised, not_avars>>

\* lines 140-175: distance_km, duration_min and laps
Totals ==
    /\ pc = "totals"
    /\ LET tt == totals(summary, splits)
       IN  IF IsExc(tt)
           THEN Raise(tt)
           ELSE /\ normalized' =
                      Dict(normalized.d
                           @@ [distance_km |-> tt.distance_km,
                               duration_min |-> tt.duration_min,
                               laps |-> tt.laps])
                /\ pc' = "derive"
                /\ UNCHANGED <<input, summary, splits, raised>>
    /\ UNCHANGED <<raw_data, decodes, not_avars>>

\* lines 177-206: the derived metrics, the other metrics, return normalized
Derive ==
    /\ pc = "derive"
    /\ LET dd == derived(normalized.d.distance_km, normalized.d.duration_min)
       IN  IF IsExc(dd)
           THEN Raise(dd)
           ELSE Return(Dict(normalized.d
                            @@ [avg_pace_min_per_km |-> dd.avg_pace_min_per_km,
                                avg_speed_kmh |-> dd.avg_speed_kmh]
                            @@ metrics(summary)))
    /\ UNCHANGED <<raw_data, decodes, not_avars>>

Next ==
    \/ CheckEmpty
    \/ DecodeString
    \/ DecodeRawText
    \/ FinalCheck
    \/ Extract
    \/ Totals
    \/ Derive

Spec == Init /\ [][Next]_vars

----------------------------------------------------------------------------
(* normalize_hr_zones *)

\* the most elements of raw_zones
MaxZones == 5

Zone(number, secs) ==
    Dict([zoneNumber |-> PyInt(number), secsInZone |-> secs,
          zoneLowBoundary |-> PyInt(100 + 10 * number)])

\* zone entries: zones with time, a zone with none, a JSON-encoded zone,
\* a zone whose time is None
ZoneEntries ==
    {Zone(1, Num(300)), Zone(2, Num(0)), Zone(3, Num(100)),
     JStr(Zone(4, Num(300))), Zone(5, Null)}

ZoneInputs ==
    {Null} \cup {List(l) : l \in UNION {[1..n -> ZoneEntries] : n \in 0..MaxZones}}

\* percentage without the scaling to per cent
percentage_fraction(time_seconds, total) == Ratio(time_seconds.n, total.n)

\* (time_seconds / total_time) * 100
percentage(time_seconds, total) == Ratio(time_seconds.n * 100, total.n)

\* the dict appended to zones for zone_data, or the exception raised
zone_entry(zone_data) ==
    IF ~IsDict(zone_data) THEN Exc("AttributeError")
    ELSE
      LET time_in_zone == Get(zone_data.d, "secsInZone", Num(0))
          time_minutes == DivConst(time_in_zone, 60)
      IN  IF IsExc(time_minutes) THEN time_minutes
          ELSE Dict([zone_number |-> Get(zone_data.d, "zoneNumber", PyInt(0)),
                     time_seconds |-> time_in_zone,
                     time_minutes |-> time_minutes,
                     low_boundary_bpm |->
                         Get(zone_data.d, "zoneLowBoundary", PyInt(0)),
                     percentage |-> PyInt(0)])

\* has_complete_data for the zones found
has_complete_data(zs) == Len(zs) >= 5

InitZones ==
    /\ Idle
    /\ WIdle
    /\ GIdle
    /\ QIdle
    /\ raw_zones \in ZoneInputs
    /\ zpc = "start"
    /\ zi = 1
    /\ zones = <<>>
    /\ total_time = Num(0)
    /\ zresult = Null
    /\ zraised = "none"

\* if not raw_zones: return the empty distribution
ZCheckEmpty ==
    /\ zpc = "start"
    /\ IF ~Truthy(raw_zones)
       THEN /\ zresult' = Dict([zones |-> List(<<>>), total_time_s |-> PyInt(0),
                                has_complete_data |-> Bool(FALSE)])
            /\ zpc' = "done"
       ELSE /\ zpc' = "loop"
            /\ UNCHANGED zresult
    /\ UNCHANGED <<raw_zones, zi, zones, total_time, zraised, not_zvars>>

\* one pass of for zone_data in raw_zones
ZLoop ==
    /\ zpc = "loop"
    /\ zi <= Len(raw_zones.l)
    /\ LET z == zone_entry(raw_zones.l[zi])
       IN  IF IsExc(z)
           THEN /\ zraised' = z.e
                /\ zpc' = "raised"
                /\ UNCHANGED <<zi, zones, total_time>>
           ELSE /\ zones' = Append(zones, z)
                /\ total_time' = Num(total_time.n + z.d.time_seconds.n)
                /\ zi' = zi + 1
                /\ UNCHANGED <<zpc, zraised>>
    /\ UNCHANGED <<raw_zones, zresult, not_zvars>>

\* lines 294-310: the percentages, has_complete_data, return
ZFinish ==
    /\ zpc = "loop"
    /\ zi > Len(raw_zones.l)
    /\ zones' = IF total_time.n > 0
                THEN [i \in 1..Len(zones) |->
                        Dict([zones[i].d EXCEPT !.percentage =
                                percentage(zones[i].d.time_seconds, total_time)])]
                ELSE zones
    /\ zresult' = Dict([zones |-> List(zones'), total_time_s |-> total_time,
                        total_time_min |-> DivConst(total_time, 60),
                        has_complete_data |-> Bool(has_complete_data(zones))])
    /\ zpc' = "done"
    /\ UNCHANGED <<raw_zones, zi, total_time, zraised, not_zvars>>

NextZones ==
    \/ ZCheckEmpty
    \/ ZLoop
    \/ ZFinish

SpecZones == InitZones /\ [][NextZones]_vars

----------------------------------------------------------------------------
(* The claims about normalize_activity, checked under Spec *)

\* the call has ended
Finished == pc \in {"done", "raised"}

\* the call got past the resolution of raw_data: summary and splits are set
Built ==
    /\ pc \in {"totals", "derive", "done", "raised"}
    /\ IsDict(normalized)
    /\ "description" \in DOMAIN normalized.d

\* the result of the call: the activity returned or the exception raised
Outcome == IF pc = "raised" THEN Exc(raised) ELSE normalized

\* a lap entry that is an object or the JSON text of an object
Resolvable(e) == IsDict(e) \/ (e.t = "jstr" /\ IsDict(e.v))

\* the items of a resolvable lap entry
LapItems(e) == IF IsDict(e) THEN e.d ELSE e.v.d

\* the positions of the resolvable entries of a lap list
ResolvablePositions(ss) == {i \in 1..Len(ss) : Resolvable(ss[i])}

\* a resolvable lap entry whose distance and duration are numbers
NumericLap(e) ==
    /\ IsNum(Get(LapItems(e), "distance", Num(0)))
    /\ IsNum(Get(LapItems(e), "duration", Num(0)))

\* the sum of a metric over the resolvable entries from position i on
RECURSIVE SumResolvable(_, _, _)
SumResolvable(ss, key, i) ==
    IF i > Len(ss) THEN 0
    ELSE (IF Resolvable(ss[i]) THEN Get(LapItems(ss[i]), key, Num(0)).n ELSE 0)
         + SumResolvable(ss, key, i + 1)

\* a number or quotient that is 0
IsZero(v) == v.n = 0

\* C1: normalize_activity never raises: every payload yields an Activity,
\* and a payload that does not resolve to an object yields the empty
\* Activity, every numeric field 0 and laps = [].
C1_NeverRaises ==
    /\ pc # "raised"
    /\ (pc = "done" /\ ~IsDict(raw_data)) =>
          /\ \A k \in DOMAIN normalized.d \ {"activity_id", "name", "date",
                                              "type", "laps"} :
                IsZero(normalized.d[k])
          /\ normalized.d.laps = List(<<>>)

\* C2: when the summary is absent or reports zero distance or duration,
\* distance_km and duration_min are the sums over the resolvable laps, laps
\* holds exactly those laps, with no resolvable lap everything is 0, no
\* error is produced, and distance_km is 0 iff no resolvable lap has a
\* positive distance.  (The arithmetic errors that non-numeric or
\* underflowing metrics raise are C1's, C3's and C6's: left aside here.)
C2_TotalsFromValidLaps ==
    (Built /\ Finished /\ use_splits(summary)
       /\ raised \notin {"TypeError", "ZeroDivisionError"}) =>
       /\ pc = "done"
       /\ normalized.d.distance_km.n
            = FDiv(SumResolvable(splits, "distance", 1), 1000)
       /\ normalized.d.duration_min.n
            = FDiv(SumResolvable(splits, "duration", 1), 60)
       /\ Len(normalized.d.laps.l) = Cardinality(ResolvablePositions(splits))
       /\ ResolvablePositions(splits) = {} =>
             /\ IsZero(normalized.d.distance_km)
             /\ IsZero(normalized.d.duration_min)
             /\ IsZero(normalized.d.avg_pace_min_per_km)
       /\ IsZero(normalized.d.distance_km) <=>
             ~\E i \in ResolvablePositions(splits) :
                 Get(LapItems(splits[i]), "distance", Num(0)).n > 0

\* the pace of an activity or lap is 0 when its distance or duration is
ZeroGuard ==
    pc = "done" =>
      /\ (IsZero(normalized.d.distance_km) \/ IsZero(normalized.d.duration_min))
            => /\ IsZero(normalized.d.avg_pace_min_per_km)
               /\ IsZero(normalized.d.avg_speed_kmh)
      /\ \A i \in 1..Len(normalized.d.laps.l) :
            LET lap == normalized.d.laps.l[i].d
            IN  (IsZero(lap.distance_km) \/ IsZero(lap.duration_min))
                    => IsZero(lap.pace_min_per_km)

\* C3: pace and speed are 0 whenever the distance or the duration is 0, and
\* no input makes normalization divide by zero.
C3_NoDivisionByZero == ZeroGuard /\ raised # "ZeroDivisionError"

\* C4: in both paths a lap entry that is neither an object nor the JSON
\* text of an object is dropped without error, and laps has exactly as
\* many laps as there are resolvable entries.  (Arithmetic errors left
\* aside, as in C2.)
C4_UnresolvableLapsDropped ==
    (Built /\ Finished /\ raised \notin {"TypeError", "ZeroDivisionError"}) =>
       /\ pc = "done"
       /\ Len(normalized.d.laps.l) = Cardinality(ResolvablePositions(splits))

\* C5: the k-th lap of every returned Activity has lap_number k, whichever
\* path produced the laps.
C5_LapNumbersByPosition ==
    pc = "done" =>
       \A k \in 1..Len(normalized.d.laps.l) :
           normalized.d.laps.l[k].d.lap_number = PyInt(k)

\* C6: when the laps (all objects) mix numeric metrics with non-numeric or
\* None ones, under a numeric summary, the call completes without raising
\* and laps holds exactly the laps with numeric metrics.  (The division by
\* zero of an underflowing lap is C3's: left aside here.)
C6_InvalidLapsSkipped ==
    (Built /\ Finished /\ ~use_splits(summary)
       /\ IsNum(Get(summary, "distance", Num(0)))
       /\ IsNum(Get(summary, "duration", Num(0)))
       /\ (\A i \in 1..Len(splits) : IsDict(splits[i]))
       /\ raised # "ZeroDivisionError") =>
       /\ pc = "done"
       /\ Len(normalized.d.laps.l)
            = Cardinality({i \in 1..Len(splits) : NumericLap(splits[i])})

\* C7: a structured activity object, its JSON text, and an object wrapping
\* its JSON text under raw_text normalize to the same Activity.
C7_EncodingsAgree ==
    (Finished /\ input \in ActivityObjects) =>
       /\ normalize_activity(JStr(input)) = Outcome
       /\ normalize_activity(Wrap(JStr(input))) = Outcome

\* C8: resolving raw_data makes at most two decode attempts, the payload if
\* it is a str and then the raw_text field if there is one, in this order;
\* a payload that is still not an object after them yields the empty
\* Activity.
C8_AtMostTwoDecodes ==
    /\ decodes \in {<<>>, <<"raw_data">>, <<"raw_text">>,
                    <<"raw_data", "raw_text">>}
    /\ (pc = "done" /\ ~IsDict(raw_data)) => normalized = empty_activity

\* a payload nested deeper than two decodes reach: the call has returned
\* after both decodes with raw_data still a wrapper
C8_Witness ==
    /\ pc = "done"
    /\ decodes = <<"raw_data", "raw_text">>
    /\ IsDict(raw_data)
    /\ "raw_text" \in DOMAIN raw_data.d
    /\ normalized # empty_activity

----------------------------------------------------------------------------
(* The claims about normalize_hr_zones, checked under SpecZones *)

ZFinished == zpc \in {"done", "raised"}

\* the sum of time_seconds over normalized zones from position i on
RECURSIVE SumTimes(_, _)
SumTimes(zs, i) ==
    IF i > Len(zs) THEN 0 ELSE zs[i].d.time_seconds.n + SumTimes(zs, i + 1)

\* the sum of the numerators of the percentages from position i on
RECURSIVE SumPercentN(_, _)
SumPercentN(zs, i) ==
    IF i > Len(zs) THEN 0 ELSE zs[i].d.percentage.n + SumPercentN(zs, i + 1)

\* C9: raw_zones elements may be objects or JSON texts of objects;
\* unresolvable elements are dropped without raising; has_complete_data is
\* true iff at least 5 zones were resolved; the empty sequence yields no
\* zones, total time 0 and has_complete_data false.  (The error that a None
\* time raises is left aside.)
C9_ZonesResolved ==
    (ZFinished /\ zraised # "TypeError") =>
       /\ zpc = "done"
       /\ LET n == IF IsList(raw_zones)
                   THEN Cardinality(ResolvablePositions(raw_zones.l)) ELSE 0
          IN  /\ Len(zresult.d.zones.l) = n
              /\ zresult.d.has_complete_data = Bool(n >= 5)
              /\ n = 0 => /\ zresult.d.zones = List(<<>>)
                          /\ IsZero(zresult.d.total_time_s)

----------------------------------------------------------------------------
(* normalize_weather.  Temperatures and the other readings are ints; a     *)
(* Celsius value is the exact quotient (f - 32) * 5 / 9.                    *)

\* ((v or 0) - 32) * 5/9
celsius(v) ==
    LET f == IF Truthy(v) THEN v ELSE PyInt(0)
    IN  IF f.t = "int" THEN Ratio((f.n - 32) * 5, 9) ELSE Exc("TypeError")

\* <celsius of the field> if raw_weather.get(key) is not None else None
celsius_of(f, key) ==
    IF Get(f, key, Null) # Null THEN celsius(f[key]) ELSE Null

\* raw_weather.get("weatherTypeDTO", {}).get("desc", "Unknown")
\*     if raw_weather.get("weatherTypeDTO") else None
condition(f) ==
    LET dto == Get(f, "weatherTypeDTO", Null)
    IN  IF ~Truthy(dto) THEN Null
        ELSE IF ~IsDict(dto) THEN Exc("AttributeError")
        ELSE Get(dto.d, "desc", Text("Unknown"))

\* the default of raw_weather.get("windDirectionCompassPoint", "N/A")
wind_direction_default == Text("N/A")

\* the dict returned for a non-empty raw_weather, or the exception raised
weather_snapshot(raw) ==
    IF ~IsDict(raw) THEN Exc("AttributeError")
    ELSE
      LET f == raw.d
          temp_c == celsius_of(f, "temp")
          apparent_temp_c == celsius_of(f, "apparentTemp")
      IN  IF IsExc(temp_c) THEN temp_c
          ELSE IF IsExc(apparent_temp_c) THEN apparent_temp_c
          ELSE IF IsExc(condition(f)) THEN condition(f)
          ELSE Dict([available |-> Bool(TRUE),
                     temp_f |-> Get(f, "temp", Null),
                     temp_c |-> temp_c,
                     apparent_temp_f |-> Get(f, "apparentTemp", Null),
                     apparent_temp_c |-> apparent_temp_c,
                     humidity |-> Get(f, "relativeHumidity", Null),
                     wind_speed_mph |-> Get(f, "windSpeed", Null),
                     wind_direction |->
                         Get(f, "windDirectionCompassPoint",
                             wind_direction_default),
                     dew_point_f |-> Get(f, "dewPoint", Null),
                     condition |-> condition(f)])

\* normalize_weather(raw_weather): the dict returned or the exception raised
normalize_weather(raw) ==
    IF ~Truthy(raw) THEN Dict([available |-> Bool(FALSE)])
    ELSE weather_snapshot(raw)

\* a raw weather payload; Absent leaves the key out
Weather(temp, apparent, humidity, wind, direction, dew, dto) ==
    Dict(Opt("temp", temp) @@ Opt("apparentTemp", apparent)
         @@ Opt("relativeHumidity", humidity) @@ Opt("windSpeed", wind)
         @@ Opt("windDirectionCompassPoint", direction)
         @@ Opt("dewPoint", dew) @@ Opt("weatherTypeDTO", dto))

WeatherTypes ==
    {Absent, Null, Dict(<<>>), Dict([desc |-> Text("Cloudy")]),
     Dict([image |-> PyInt(3)]), Text("Cloudy")}

WeatherInputs ==
    {Null, List(<<PyInt(75)>>)} \cup
    {Weather(t, a, h, w, d, p, c) :
        t \in {Absent, Null, PyInt(0), PyInt(75), Text("warm")},
        a \in {Absent, PyInt(0), PyInt(80)},
        h \in {Absent, PyInt(60)},
        w \in {Absent, PyInt(0)},
        d \in {Absent, Text("NW")},
        p \in {Absent, PyInt(55)},
        c \in WeatherTypes}

InitWeather ==
    /\ Idle
    /\ ZIdle
    /\ GIdle
    /\ QIdle
    /\ raw_weather \in WeatherInputs
    /\ wpc = "start"
    /\ wresult = Null
    /\ wraised = "none"

\* if not raw_weather: return {"available": False}
WCheckEmpty ==
    /\ wpc = "start"
    /\ IF ~Truthy(raw_weather)
       THEN /\ wresult' = normalize_weather(raw_weather)
            /\ wpc' = "done"
       ELSE /\ wpc' = "build"
            /\ UNCHANGED wresult
    /\ UNCHANGED <<raw_weather, wraised, not_wvars>>

\* return {"available": True, ...}
WBuild ==
    /\ wpc = "build"
    /\ LET r == weather_snapshot(raw_weather)
       IN  IF IsExc(r)
           THEN /\ wraised' = r.e
                /\ wpc' = "raised"
                /\ UNCHANGED wresult
           ELSE /\ wresult' = r
                /\ wpc' = "done"
                /\ UNCHANGED wraised
    /\ UNCHANGED <<raw_weather, not_wvars>>

NextWeather ==
    \/ WCheckEmpty
    \/ WBuild

SpecWeather == InitWeather /\ [][NextWeather]_vars

----------------------------------------------------------------------------
(* The claim about normalize_weather, checked under SpecWeather *)

\* the upstream key of each field the snapshot copies
UpstreamKey ==
    [temp_f |-> "temp", apparent_temp_f |-> "apparentTemp",
     humidity |-> "relativeHumidity", wind_speed_mph |-> "windSpeed",
     wind_direction |-> "windDirectionCompassPoint",
     dew_point_f |-> "dewPoint", condition |-> "weatherTypeDTO"]

\* the Fahrenheit source of each derived Celsius field
FahrenheitKey == [temp_c |-> "temp", apparent_temp_c |-> "apparentTemp"]

\* C11: normalize_weather returns available = false for an empty or absent
\* input; for any other input it returns available = true, every field whose
\* upstream key is missing is null, a temperature of 0 stays 0, and a Celsius
\* field is null exactly when its Fahrenheit source is absent.
C11_WeatherMissingIsNull ==
    wpc \in {"done", "raised"} =>
        /\ wpc = "done"
        /\ IF ~Truthy(raw_weather)
           THEN wresult = Dict([available |-> Bool(FALSE)])
           ELSE /\ wresult.d.available = Bool(TRUE)
                /\ \A k \in DOMAIN UpstreamKey :
                      UpstreamKey[k] \notin DOMAIN raw_weather.d
                          => wresult.d[k] = Null
                /\ Get(raw_weather.d, "temp", Null) = PyInt(0)
                      => wresult.d.temp_f = PyInt(0)
                /\ \A k \in DOMAIN FahrenheitKey :
                      wresult.d[k] = Null
                          <=> Get(raw_weather.d, FahrenheitKey[k], Null) = Null

----------------------------------------------------------------------------
(* The claim about the defaults of normalize_activity, checked under Spec *)

\* C12: the name of every returned Activity is a string; it is "Unnamed Run"
\* when the upstream name is missing or null and in the empty Activity
\* returned for malformed input; the type is "running" when the type block
\* is missing or null.
C12_NameDefaults ==
    pc = "done" =>
        /\ IsStr(normalized.d.name)
        /\ normalized = empty_activity => normalized.d.name = Text("Unnamed Run")
        /\ (normalized # empty_activity
              /\ Get(raw_data.d, "activityName", Null) = Null)
               => normalized.d.name = Text("Unnamed Run")
        /\ (normalized # empty_activity
              /\ Get(raw_data.d, "activityTypeDTO", Null) = Null)
               => normalized.d.type = Text("running")

----------------------------------------------------------------------------
(* UserScopedGarminClient: what each method makes of the tool's answer.    *)
(* An answer is an exception (the session or the tool call failed), None   *)
(* (no content), or the content text: a str for the per-activity tools, the *)
(* list of the text's activity sections for list_activities, each section  *)
(* given by what the two regular expressions find in it (Absent: no match). *)

\* a filter that trusts the tool to have applied activityType
section_kept_unfiltered(type_match, id_match, type_wanted) ==
    type_match # Absent /\ id_match # Absent

\* whether the id of a section is appended to activity_ids
section_kept(type_match, id_match, type_wanted) ==
    type_match # Absent /\ id_match # Absent /\ type_match = type_wanted

\* the loop over activity_sections from position i: the ids kept
RECURSIVE activity_ids_from(_, _, _, _)
activity_ids_from(sections, type_wanted, i, acc) ==
    IF i > Len(sections) THEN acc
    ELSE LET type_match == sections[i].type
             id_match == sections[i].id
         IN  IF section_kept(type_match, id_match, type_wanted)
             THEN activity_ids_from(sections, type_wanted, i + 1,
                                    Append(acc, id_match))
             ELSE activity_ids_from(sections, type_wanted, i + 1, acc)

\* get_activities(activity_type=type_wanted, limit=...): the list, or the exception
get_activities(response, type_wanted) ==
    IF IsExc(response) THEN response
    ELSE IF response = Null THEN List(<<>>)
    ELSE LET activity_ids ==
                 activity_ids_from(response.l, type_wanted, 1, <<>>)
         IN  List([i \in 1..Len(activity_ids) |->
                      Dict([activityId |-> activity_ids[i]])])

\* get_activity_details(activity_id): the value returned, or the exception
get_activity_details(response) ==
    IF IsExc(response) THEN response
    ELSE IF response = Null THEN Dict(<<>>)
    ELSE LET data == JsonLoads(response)
         IN  IF IsExc(data) THEN Dict([raw_text |-> response])
             ELSE IF IsDict(data) /\ "activity" \in DOMAIN data.d
             THEN LET activity == data.d["activity"]
                  IN  IF ~IsStr(activity) THEN activity
                      ELSE IF IsExc(JsonLoads(activity))
                      THEN Dict([raw_text |-> response])
                      ELSE JsonLoads(activity)
             ELSE IF IsDict(data) \/ IsList(data) \/ IsStr(data) THEN data
             ELSE Exc("TypeError")

\* get_activity_splits(activity_id): failures and bad content give {}
get_activity_splits(response) ==
    IF IsExc(response) \/ response = Null THEN Dict(<<>>)
    ELSE IF IsExc(JsonLoads(response)) THEN Dict(<<>>)
    ELSE JsonLoads(response)

\* get_activity_hr_zones(activity_id): failures and bad content give []
get_activity_hr_zones(response) ==
    IF IsExc(response) \/ response = Null THEN List(<<>>)
    ELSE LET data == JsonLoads(response)
         IN  IF IsExc(data) THEN List(<<>>)
             ELSE IF IsDict(data) /\ "zones" \in DOMAIN data.d
             THEN data.d["zones"]
             ELSE IF IsDict(data) /\ "hrZones" \in DOMAIN data.d
             THEN data.d["hrZones"]
             ELSE data

\* get_activity_weather(activity_id): failures and bad content give {}
get_activity_weather(response) ==
    IF IsExc(response) \/ response = Null THEN Dict(<<>>)
    ELSE LET data == JsonLoads(response)
         IN  IF ~IsExc(data) /\ IsDict(data) THEN data ELSE Dict(<<>>)

\* the four per-activity fetches in the order _gather_single_activity_data
\* makes them, and the key of activity_data each fills
fetch_order == <<"raw_activity", "raw_splits", "raw_hr_zones", "raw_weather">>

\* the client method behind each key, applied to the tool's answer
client_fetch(key, response) ==
    CASE key = "raw_activity" -> get_activity_details(response)
      [] key = "raw_splits"   -> get_activity_splits(response)
      [] key = "raw_hr_zones" -> get_activity_hr_zones(response)
      [] key = "raw_weather"  -> get_activity_weather(response)

----------------------------------------------------------------------------
(* normalize_hr_zones as a function of its argument *)

\* the loop of normalize_hr_zones from position i, then lines 294-310
RECURSIVE hr_zones_from(_, _, _, _)
hr_zones_from(rz, i, zs, total) ==
    IF i > Len(rz)
    THEN Dict([zones |->
                  List(IF total > 0
                       THEN [k \in 1..Len(zs) |->
                               Dict([zs[k].d EXCEPT !.percentage =
                                   percentage(zs[k].d.time_seconds, Num(total))])]
                       ELSE zs),
               total_time_s |-> Num(total),
               total_time_min |-> DivConst(Num(total), 60),
               has_complete_data |-> Bool(has_complete_data(zs))])
    ELSE LET z == zone_entry(rz[i])
         IN  IF IsExc(z) THEN z
             ELSE hr_zones_from(rz, i + 1, Append(zs, z),
                                total + z.d.time_seconds.n)

\* normalize_hr_zones(raw_zones): the dict returned, or the exception raised
normalize_hr_zones(rz) ==
    IF ~Truthy(rz)
    THEN Dict([zones |-> List(<<>>), total_time_s |-> PyInt(0),
               has_complete_data |-> Bool(FALSE)])
    ELSE IF IsList(rz) THEN hr_zones_from(rz.l, 1, <<>>, 0)
    ELSE IF IsDict(rz) \/ IsStr(rz) THEN Exc("AttributeError")
    ELSE Exc("TypeError")

----------------------------------------------------------------------------
(* FlexibleRunningAgent: the helpers of gather_data *)

\* str(e) for the exception e
str(e) == Text(e.e)

\* the activity_data that _gather_single_activity_data starts from
new_activity_data(activity_id) ==
    [activity_id |-> activity_id, raw_activity |-> Null, raw_splits |-> Null,
     raw_hr_zones |-> Null, raw_weather |-> Null, normalized |-> Null]

\* lines 183-190 of _normalize_activity_data: raw_activity once raw_splits,
\* if there are any, is stored into it under splits_data; the exception if
\* raw_activity takes no item assignment
merged_activity(ad) ==
    IF ~Truthy(ad.raw_splits) THEN ad.raw_activity
    ELSE IF IsDict(ad.raw_activity)
    THEN Dict(("splits_data" :> ad.raw_splits) @@ ad.raw_activity.d)
    ELSE Exc("TypeError")

\* lines 203-212: the dict of the three normalized parts, None when one of
\* the normalizers raised
normalized_data(normalized_activity, normalized_hr, normalized_weather) ==
    IF IsExc(normalized_activity) \/ IsExc(normalized_hr)
       \/ IsExc(normalized_weather)
    THEN Null
    ELSE Dict([activity |-> normalized_activity, hr_zones |-> normalized_hr,
               weather |-> normalized_weather])

\* _is_data_incomplete(activity_data)
is_data_incomplete(ad) ==
    \/ "error" \in DOMAIN ad
    \/ ~Truthy(ad.normalized)
    \/ LET activity == ad.normalized.d.activity.d
       IN  \/ EqZero(Get(activity, "distance_km", Num(0)))
           \/ EqZero(Get(activity, "duration_min", Num(0)))
           \/ ~Truthy(Get(activity, "laps", Null))

\* a limit of just the activities asked for
fetch_limit_exact(num) == num

\* fetch_limit = num_activities * 5
fetch_limit(num) == num * 5

\* a loop that stops one activity late
enough_processed_late(processed, num) == processed > num

\* if activities_processed >= num_activities: break
enough_processed(processed, num) == processed >= num

\* a handler that logs the listing failure and returns the dataset as it is
with_listing_error_dropped(gd, e) == gd

\* gathered_data["error"] = str(e)
with_listing_error(gd, e) == gd @@ ("error" :> str(e))

\* whether _correct_incomplete_data fetches the splits again
refetches_splits(ad) == ~Truthy(ad.raw_splits)

----------------------------------------------------------------------------
(* What the tools answer *)

\* the most activity sections in the answer of list_activities
MaxFeed == 3

\* the id the section at position i carries
section_id(i) == Text(ToString(100 + i))

\* a section at position i: a running or a cycling activity, or a section
\* in which no ID is found
Section(i, kind) ==
    CASE kind = "running" -> [type |-> Text("running"), id |-> section_id(i)]
      [] kind = "cycling" -> [type |-> Text("cycling"), id |-> section_id(i)]
      [] kind = "no_id"   -> [type |-> Text("running"), id |-> Absent]

\* a failed tool call
ToolFailure == Exc("McpError")

ListAnswers ==
    {ToolFailure, Null} \cup
    {List([i \in 1..Len(kinds) |-> Section(i, kinds[i])]) :
        kinds \in UNION {[1..n -> {"running", "cycling", "no_id"}] :
                            n \in 0..MaxFeed}}

\* the num_activities a caller asks for
Targets == {1, 2}

\* a detail payload with a summary, and one whose summary is all zero
DetailFull == Activity(Summary(Num(300000), Num(90000)), <<>>)
DetailZero == Activity(Summary(Num(0), Num(0)), <<>>)

\* a splits payload with one lap, and one with no laps
SplitsLaps == Dict([lapDTOs |-> List(<<Lap(Num(60000), Num(36000))>>)])
SplitsNoLaps == Dict([lapDTOs |-> List(<<>>)])

\* what the tool behind each key of activity_data may answer
Answers(key) ==
    CASE key = "raw_activity" ->
             {ToolFailure, JStr(DetailFull), JStr(DetailZero)}
      [] key = "raw_splits" ->
             {ToolFailure, JStr(Dict(<<>>)), JStr(SplitsLaps),
              JStr(SplitsNoLaps)}
      [] key = "raw_hr_zones" ->
             {ToolFailure, JStr(List(<<Zone(1, Num(300))>>))}
      [] key = "raw_weather" ->
             {ToolFailure,
              JStr(Weather(PyInt(75), Absent, PyInt(60), Absent, Absent,
                           Absent, Absent))}

----------------------------------------------------------------------------
(* One call of gather_data.  An action is the code up to the next await or *)
(* the answer to the call awaited.                                          *)

InitGather ==
    /\ Idle
    /\ ZIdle
    /\ WIdle
    /\ QIdle
    /\ upstream \in ListAnswers
    /\ num_activities \in Targets
    /\ gpc = "start"
    /\ list_call = Null
    /\ activities_list = <<>>
    /\ gi = 0
    /\ activities_processed = 0
    /\ activity_data = <<>>
    /\ fetch = 0
    /\ inflight = {}
    /\ calls = <<>>
    /\ gathered_data = [activities |-> <<>>, request |-> Text("analyze"),
                        scope |-> Text("recent")]

\* lines 70-86: gathered_data, fetch_limit, the get_activities call
CallGetActivities ==
    /\ gpc = "start"
    /\ list_call' = [activity_type |-> Text("running"),
                     limit |-> fetch_limit(num_activities)]
    /\ inflight' = inflight \cup {"list_activities"}
    /\ gpc' = "await_list"
    /\ UNCHANGED <<upstream, num_activities, activities_list, gi,
                   activities_processed, activity_data, fetch, calls,
                   gathered_data, not_gvars>>

\* get_activities returns or raises: lines 88-95 and 116-120
GetActivitiesReturns ==
    /\ gpc = "await_list"
    /\ inflight' = inflight \ {"list_activities"}
    /\ LET r == get_activities(upstream, list_call.activity_type)
       IN  IF IsExc(r)
           THEN /\ gathered_data' = with_listing_error(gathered_data, r)
                /\ gpc' = "done"
                /\ UNCHANGED <<activities_list, gi>>
           ELSE IF ~Truthy(r)
           THEN /\ gpc' = "done"
                /\ UNCHANGED <<activities_list, gi, gathered_data>>
           ELSE /\ activities_list' = r.l
                /\ gi' = 1
                /\ gpc' = "loop"
                /\ UNCHANGED gathered_data
    /\ UNCHANGED <<upstream, num_activities, list_call, activities_processed,
                   activity_data, fetch, calls, not_gvars>>

\* lines 96-102 and 133-142: the head of the for loop, up to the first fetch
LoopHead ==
    /\ gpc = "loop"
    /\ IF \/ gi > Len(activities_list)
          \/ enough_processed(activities_processed, num_activities)
       THEN /\ gpc' = "done"
            /\ UNCHANGED <<gi, activity_data, fetch>>
       ELSE LET activity_id == Get(activities_list[gi].d, "activityId", Null)
            IN  IF ~Truthy(activity_id)
                THEN /\ gi' = gi + 1
                     /\ UNCHANGED <<gpc, activity_data, fetch>>
                ELSE /\ activity_data' = new_activity_data(activity_id)
                     /\ fetch' = 1
                     /\ gpc' = "fetch"
                     /\ UNCHANGED gi
    /\ UNCHANGED <<upstream, num_activities, list_call, activities_list,
                   activities_processed, inflight, calls, gathered_data,
                   not_gvars>>

\* the entry of calls for a call just issued (no answer yet), and the log
\* with the answer to its last call filled in
issued(ad, key) ==
    [activity_id |-> ad.activity_id, key |-> key, response |-> Absent]
answered(log, response) == [log EXCEPT ![Len(log)].response = response]

\* gathered_data["activities"].append(activity_data)
appended(gd, ad) == [gd EXCEPT !.activities = Append(@, ad)]

\* lines 145-159: the next of the four fetches is issued
CallFetch ==
    /\ gpc = "fetch"
    /\ inflight' = inflight \cup {fetch_order[fetch]}
    /\ calls' = Append(calls, issued(activity_data, fetch_order[fetch]))
    /\ gpc' = "await"
    /\ UNCHANGED <<upstream, num_activities, list_call, activities_list, gi,
                   activities_processed, activity_data, fetch, gathered_data,
                   not_gvars>>

\* the fetch returns or raises: the assignment, or lines 165-169
FetchReturns ==
    /\ gpc = "await"
    /\ \E response \in Answers(fetch_order[fetch]) :
          LET key == fetch_order[fetch]
              v == client_fetch(key, response)
          IN  /\ calls' = answered(calls, response)
              /\ inflight' = inflight \ {key}
              /\ IF IsExc(v)
                 THEN /\ activity_data' = activity_data @@ ("error" :> str(v))
                      /\ gpc' = "check"
                      /\ UNCHANGED fetch
                 ELSE /\ activity_data' = [activity_data EXCEPT ![key] = v]
                      /\ IF fetch < Len(fetch_order)
                         THEN fetch' = fetch + 1 /\ gpc' = "fetch"
                         ELSE gpc' = "normalize" /\ UNCHANGED fetch
    /\ UNCHANGED <<upstream, num_activities, list_call, activities_list, gi,
                   activities_processed, gathered_data, not_gvars>>

\* activity_data["normalized"] = self._normalize_activity_data(activity_data),
\* at line 163 and again at line 267
Normalize ==
    /\ gpc \in {"normalize", "renormalize"}
    /\ \E raw_activity \in {merged_activity(activity_data)} :
          IF IsExc(raw_activity)
          THEN activity_data' = [activity_data EXCEPT !.normalized = Null]
          ELSE \E normalized_activity \in {normalize_activity(raw_activity)},
                  normalized_hr \in
                      {normalize_hr_zones(activity_data.raw_hr_zones)},
                  normalized_weather \in
                      {normalize_weather(activity_data.raw_weather)} :
                  activity_data' =
                      [activity_data EXCEPT
                          !.raw_activity = raw_activity,
                          !.normalized =
                              normalized_data(normalized_activity,
                                              normalized_hr,
                                              normalized_weather)]
    /\ gpc' = IF gpc = "normalize" THEN "check" ELSE "append"
    /\ UNCHANGED <<upstream, num_activities, list_call, activities_list, gi,
                   activities_processed, fetch, inflight, calls,
                   gathered_data, not_gvars>>

\* lines 106-109 and 261-266: the completeness check; the splits are fetched
\* again when the data is incomplete and raw_splits is empty
Check ==
    /\ gpc = "check"
    /\ IF is_data_incomplete(activity_data) /\ refetches_splits(activity_data)
       THEN /\ inflight' = inflight \cup {"raw_splits"}
            /\ calls' = Append(calls, issued(activity_data, "raw_splits"))
            /\ gpc' = "await_refetch"
       ELSE /\ gpc' = "append"
            /\ UNCHANGED <<inflight, calls>>
    /\ UNCHANGED <<upstream, num_activities, list_call, activities_list, gi,
                   activities_processed, activity_data, fetch, gathered_data,
                   not_gvars>>

\* the second get_activity_splits returns or raises: lines 266 and 269-270
RefetchReturns ==
    /\ gpc = "await_refetch"
    /\ \E response \in Answers("raw_splits") :
          LET v == get_activity_splits(response)
          IN  /\ calls' = answered(calls, response)
              /\ inflight' = inflight \ {"raw_splits"}
              /\ IF IsExc(v)
                 THEN gpc' = "append" /\ UNCHANGED activity_data
                 ELSE /\ activity_data' =
                            [activity_data EXCEPT !.raw_splits = v]
                      /\ gpc' = "renormalize"
    /\ UNCHANGED <<upstream, num_activities, list_call, activities_list, gi,
                   activities_processed, fetch, gathered_data, not_gvars>>

\* lines 111-112: the activity is appended and counted
AppendActivity ==
    /\ gpc = "append"
    /\ gathered_data' = appended(gathered_data, activity_data)
    /\ activities_processed' = activities_processed + 1
    /\ gi' = gi + 1
    /\ gpc' = "loop"
    /\ UNCHANGED <<upstream, num_activities, list_call, activities_list,
                   activity_data, fetch, inflight, calls, not_gvars>>

NextGather ==
    \/ CallGetActivities
    \/ GetActivitiesReturns
    \/ LoopHead
    \/ CallFetch
    \/ FetchReturns
    \/ Normalize
    \/ Check
    \/ RefetchReturns
    \/ AppendActivity

SpecGather == InitGather /\ [][NextGather]_vars

----------------------------------------------------------------------------
(* The claims about gather_data, checked under SpecGather *)

\* the activities gathered so far
Gathered == gathered_data.activities

\* a per-activity tool call is in flight
FetchInFlight == inflight \ {"list_activities"} # {}

\* the smaller of two numbers
Min(a, b) == IF a < b THEN a ELSE b

\* C13: the dataset never holds more than num_activities activities; no
\* per-activity call is in flight once num_activities activities are
\* appended; and a run whose listing succeeded ends with exactly
\* min(num_activities, length of the identifier list) activities: it stops
\* when the target is reached or the list is exhausted, not before.
C13_AtMostTargetCount ==
    /\ Len(Gathered) <= num_activities
    /\ Len(Gathered) = activities_processed
    /\ FetchInFlight => Len(Gathered) < num_activities
    /\ Len(Gathered) >= num_activities => gpc \in {"loop", "done"}
    /\ (gpc = "done" /\ "error" \notin DOMAIN gathered_data)
           => Len(Gathered) = Min(num_activities, Len(activities_list))

\* a run that stopped at the target with identifiers left in the list
C13_Witness ==
    /\ gpc = "done"
    /\ Len(Gathered) = num_activities
    /\ Len(activities_list) > num_activities
    /\ Len(calls) > 0

\* the listing was answered (no exception) and no identifier was kept
ListingEmpty ==
    /\ ~IsExc(upstream)
    /\ get_activities(upstream, Text("running")) = List(<<>>)

\* C14: the listing call is made with type "running" and limit
\* num_activities * 5, before anything else; when the resulting list is
\* empty, gather_data returns a dataset with no activities and no error and
\* makes no per-activity call.
C14_ListingCallAndEmptyList ==
    /\ gpc # "start" =>
          list_call = [activity_type |-> Text("running"),
                       limit |-> num_activities * 5]
    /\ gpc = "start" => list_call = Null /\ calls = <<>>
    /\ ListingEmpty => calls = <<>> /\ Gathered = <<>>
    /\ (ListingEmpty /\ gpc = "done") => "error" \notin DOMAIN gathered_data
    /\ (ListingEmpty /\ gpc \notin {"start", "await_list"}) => gpc = "done"

\* a finished run whose listing had sections, none of them kept
C14_Witness ==
    /\ gpc = "done"
    /\ ListingEmpty
    /\ IsList(upstream) /\ Len(upstream.l) > 0
    /\ gathered_data = [activities |-> <<>>, request |-> Text("analyze"),
                        scope |-> Text("recent")]

\* the tool calls made for one activity, in the order they were issued
CallsOf(id) == SelectSeq(calls, LAMBDA c : c.activity_id = id)

\* at most one upstream call is awaited at any time
CallsNeverOverlap ==
    /\ Cardinality(inflight) <= 1
    /\ \A i \in 1..Len(calls) : calls[i].response = Absent =>
          i = Len(calls) /\ inflight = {calls[i].key}

\* the calls of every activity start detail, splits, zones, weather, and the
\* only call after these four positions is one for the splits
FetchesInOrder ==
    \A i \in 1..Len(activities_list) :
       LET cs == CallsOf(Get(activities_list[i].d, "activityId", Null))
       IN  \A k \in 1..Len(cs) :
              cs[k].key = IF k <= Len(fetch_order) THEN fetch_order[k]
                          ELSE "raw_splits"

\* the four fetches of the activity being gathered have all returned
AllFourReturned ==
    \A k \in 1..Len(fetch_order) :
       LET cs == CallsOf(activity_data.activity_id)
       IN  \E j \in 1..Len(cs) :
              cs[j].key = fetch_order[k] /\ cs[j].response # Absent

\* C15: upstream calls never overlap, the four fetches of an activity are
\* issued in the order detail, splits, heart-rate zones, weather, and the
\* activity is normalized only after all four have returned.
C15_SequentialFetches ==
    /\ CallsNeverOverlap
    /\ FetchesInOrder
    /\ gpc \in {"normalize", "renormalize"} => AllFourReturned

\* the same with the first normalization only (line 163)
C15_FirstNormalization ==
    /\ CallsNeverOverlap
    /\ FetchesInOrder
    /\ gpc = "normalize" => AllFourReturned

\* the activity being gathered is found incomplete by the check of line 107
IncompleteAtCheck == gpc = "check" /\ is_data_incomplete(activity_data)

\* no activity gets more than its four fetches and one more call
AtMostOneRetry ==
    \A i \in 1..Len(activities_list) :
       Len(CallsOf(Get(activities_list[i].d, "activityId", Null)))
          <= Len(fetch_order) + 1

\* a corrective fetch is followed by one re-normalization and the append
RetryThenAppend ==
    [][/\ gpc = "await_refetch" => gpc' = "renormalize"
       /\ gpc = "renormalize" => gpc' = "append"]_vars

\* C16: whenever an activity is incomplete after its first normalization,
\* exactly one corrective action is performed for it: the splits are fetched
\* once more and the activity is normalized once more; nothing else is
\* repeated and there is no second retry.
C16_OneCorrectiveAction ==
    /\ [][IncompleteAtCheck => gpc' = "await_refetch"]_vars
    /\ RetryThenAppend
    /\ []AtMostOneRetry

\* the part about the retries alone: never more than one, always followed by
\* one re-normalization
C16_NoSecondRetry == RetryThenAppend /\ []AtMostOneRetry

\* the corrective fetch was made for the activity
Retried(id) ==
    LET cs == CallsOf(id)
    IN  Len(cs) > 1 /\ cs[Len(cs)].key = "raw_splits"

\* every activity whose gathering is over is in the dataset
GatheredAreKept ==
    gpc \in {"loop", "done"} =>
       \A i \in 1..Len(calls) :
          \E j \in 1..Len(Gathered) :
             Gathered[j].activity_id = calls[i].activity_id

\* C17: an activity still incomplete after the corrective re-fetch is kept
\* in the dataset and counted, and carries a warning flag; one that became
\* complete through the re-fetch is accepted with no warning flag.
C17_WarningFlag ==
    /\ GatheredAreKept
    /\ Len(Gathered) = activities_processed
    /\ \A j \in 1..Len(Gathered) :
          Retried(Gathered[j].activity_id) =>
             (is_data_incomplete(Gathered[j])
                 <=> "warning" \in DOMAIN Gathered[j])

\* the part about keeping and counting alone, with an activity that is
\* still incomplete after its corrective fetch in the dataset
C17_KeptAndCounted ==
    /\ GatheredAreKept
    /\ Len(Gathered) = activities_processed

\* one of the tool calls made for the activity failed
FetchFailed(id) ==
    \E i \in 1..Len(calls) :
       calls[i].activity_id = id /\ IsExc(calls[i].response)

\* a run whose listing succeeded ends with num_activities activities, or
\* with one for every identifier listed
NeverAborted ==
    (gpc = "done" /\ "error" \notin DOMAIN gathered_data) =>
       Len(Gathered) = Min(num_activities, Len(activities_list))

\* C18: a failure of any per-activity fetch (detail, splits, zones or
\* weather) is recorded on that activity's error field, and it never aborts
\* gather_data: the later identifiers are still fetched and appended until
\* num_activities is reached or the list is exhausted.
C18_FetchFailureRecorded ==
    /\ NeverAborted
    /\ \A j \in 1..Len(Gathered) :
          FetchFailed(Gathered[j].activity_id) =>
             "error" \in DOMAIN Gathered[j]

\* the same for a failure of the detail fetch only
C18_DetailFailureRecorded ==
    /\ NeverAborted
    /\ \A j \in 1..Len(Gathered) :
          IsExc(CallsOf(Gathered[j].activity_id)[1].response) =>
             /\ Gathered[j].error = str(ToolFailure)
             /\ j < num_activities /\ j < Len(activities_list)
                   /\ gpc = "done" => Len(Gathered) > j

\* C19: a failure of the listing call is fatal: the result carries an
\* explicit error, holds no activities and no partial data, and no
\* per-activity call is issued; the error tells the result apart from the
\* one of a listing that succeeded, with or without identifiers in it.
C19_ListingFailureIsFatal ==
    /\ IsExc(upstream) =>
          /\ calls = <<>> /\ Gathered = <<>> /\ activities_list = <<>>
          /\ gpc \in {"start", "await_list", "done"}
          /\ gpc = "done" =>
                gathered_data =
                   [activities |-> <<>>, request |-> Text("analyze"),
                    scope |-> Text("recent"), error |-> str(upstream)]
    /\ ~IsExc(upstream) => "error" \notin DOMAIN gathered_data

\* a finished run whose listing call failed
C19_Witness ==
    /\ gpc = "done"
    /\ IsExc(upstream)
    /\ list_call # Null
    /\ "error" \in DOMAIN gathered_data

\* the position in the feed of the section that carries an id (0 when the
\* feed has no such section)
FeedPosition(id) ==
    IF IsList(upstream) /\ \E i \in 1..Len(upstream.l) : upstream.l[i].id = id
    THEN CHOOSE i \in 1..Len(upstream.l) : upstream.l[i].id = id
    ELSE 0

\* the feed lists the id with type running
ListedAsRunning(id) ==
    /\ FeedPosition(id) > 0
    /\ upstream.l[FeedPosition(id)].type = Text("running")

\* C20: whatever mix of running and other activities the feed returns, no
\* activity of another type appears in the output of gather_data: every
\* gathered activity is one the feed listed with type running, and the
\* gathered activities are in feed order.
C20_OnlyRunningInFeedOrder ==
    /\ \A i \in 1..Len(calls) : ListedAsRunning(calls[i].activity_id)
    /\ \A j \in 1..Len(Gathered) : ListedAsRunning(Gathered[j].activity_id)
    /\ \A j, k \in 1..Len(Gathered) :
          j < k => FeedPosition(Gathered[j].activity_id)
                      < FeedPosition(Gathered[k].activity_id)

\* a finished run over a feed with a cycling activity between two running
\* ones, both of them gathered
C20_Witness ==
    /\ gpc = "done"
    /\ Len(Gathered) = 2
    /\ IsList(upstream) /\ Len(upstream.l) = 3
    /\ upstream.l[2].type = Text("cycling")
    /\ FeedPosition(Gathered[1].activity_id) = 1
    /\ FeedPosition(Gathered[2].activity_id) = 3

----------------------------------------------------------------------------
(***************************************************************************)
(* The coach Q&A agent (agent-service/src/agents/coach_qa.py):             *)
(* _detect_follow_up, _plan_action and answer_question.  A question is a   *)
(* string, read character by character by the str methods below; the       *)
(* context is None or a dict; what the language model returns is a value   *)
(* or an exception.                                                        *)
(***************************************************************************)

\* the characters that str.strip() and str.split() take for blanks
whitespace == {" ", "\t", "\n"}

ascii_uppercase == "ABCDEFGHIJKLMNOPQRSTUVWXYZ"
ascii_lowercase == "abcdefghijklmnopqrstuvwxyz"

\* s.lower()
RECURSIVE lower(_)
lower(s) ==
    IF Len(s) = 0 THEN ""
    ELSE IF Len(s) = 1
    THEN LET up == {i \in 1..Len(ascii_uppercase) :
                       SubSeq(ascii_uppercase, i, i) = s}
         IN  IF up = {} THEN s
             ELSE SubSeq(ascii_lowercase, CHOOSE i \in up : TRUE,
                                          CHOOSE i \in up : TRUE)
    ELSE lower(SubSeq(s, 1, Len(s) \div 2))
            \o lower(SubSeq(s, Len(s) \div 2 + 1, Len(s)))

\* s.strip()
strip(s) ==
    LET inked == {i \in 1..Len(s) : SubSeq(s, i, i) \notin whitespace}
    IN  IF inked = {} THEN ""
        ELSE SubSeq(s, CHOOSE i \in inked : \A j \in inked : i <= j,
                       CHOOSE i \in inked : \A j \in inked : i >= j)

\* len(s.split()): the number of words, each a run of non-blank characters
word_count(s) ==
    Cardinality({i \in 1..Len(s) :
                    /\ SubSeq(s, i, i) \notin whitespace
                    /\ i = 1 \/ SubSeq(s, i - 1, i - 1) \in whitespace})

\* s.startswith(prefix)
startswith(s, prefix) ==
    Len(prefix) <= Len(s) /\ SubSeq(s, 1, Len(prefix)) = prefix

\* token in s
contains(s, token) ==
    \E i \in 1..(Len(s) - Len(token) + 1) :
       SubSeq(s, i, i + Len(token) - 1) = token

\* any(token in s for token in tokens)
contains_any(s, tokens) ==
    \E k \in 1..Len(tokens) : contains(s, tokens[k])

\* s[:n] on a str or a list
upto(s, n) == SubSeq(s, 1, IF Len(s) < n THEN Len(s) ELSE n)

\* line 36-38
followup_starters ==
    <<"and", "also", "what about", "how about", "then", "so", "now", "ok",
      "okay", "sure">>

\* line 43
referential_tokens == <<"that", "it", "this", "those", "same", "instead">>

\* lines 216-220
coachable_terms ==
    <<"easy pace", "tempo pace", "threshold pace", "expected time",
      "race time", "5k", "10k", "half", "half marathon", "marathon",
      "training load", "recommend my next run", "next run">>

\* lines 278-281
keywords ==
    <<"vo2", "v02", "tag", "tagged", "training effect", "heart rate", "hr",
      "pace", "split", "cadence", "garmin", "run", "workout", "activity",
      "zone">>

\* line 261
valid_actions ==
    {Text("answer"), Text("ask_clarifying"), Text("decline_non_running")}

\* context.get(key) on a context that is a dict
context_get(ctx, key) == Get(ctx.d, key, Null)

\* bool(context.get("last_intent") or context.get("last_analysis_text") or
\* context.get("summary")), at lines 45 and 276
has_running_context_intent_only(ctx) == Truthy(context_get(ctx, "last_intent"))
has_running_context(ctx) ==
    \/ Truthy(context_get(ctx, "last_intent"))
    \/ Truthy(context_get(ctx, "last_analysis_text"))
    \/ Truthy(context_get(ctx, "summary"))

\* _detect_follow_up(question, context)
detect_follow_up(q, ctx) ==
    IF ~Truthy(ctx) THEN FALSE
    ELSE LET recent_messages == context_get(ctx, "recent_messages")
             lower_q == strip(lower(q))
         IN  IF ~IsList(recent_messages) \/ Len(recent_messages.l) = 0
             THEN FALSE
             ELSE IF \E k \in 1..Len(followup_starters) :
                        startswith(lower_q, followup_starters[k])
             THEN TRUE
             ELSE IF word_count(lower_q) <= 6 THEN TRUE
             ELSE IF contains_any(lower_q, referential_tokens) THEN TRUE
             ELSE IF has_running_context(ctx) THEN word_count(lower_q) <= 10
             ELSE FALSE

\* v or {} for a value v that is None or a dict
or_empty(v) == IF Truthy(v) THEN v ELSE Dict(<<>>)

\* has_profile or has_history for a persona_profile that is a dict:
\* lines 92-96 and 293-297
profile_without_history(persona_profile) ==
    LET runner_profile == or_empty(Get(persona_profile.d, "runner_profile", Null))
    IN  \/ Truthy(Get(runner_profile.d, "proficiency", Null))
        \/ Truthy(Get(runner_profile.d, "score", Null))
profile_or_history(persona_profile) ==
    LET runner_profile == or_empty(Get(persona_profile.d, "runner_profile", Null))
        runner_history == or_empty(Get(persona_profile.d, "runner_history", Null))
        has_profile == \/ Truthy(Get(runner_profile.d, "proficiency", Null))
                       \/ Truthy(Get(runner_profile.d, "score", Null))
        has_history == Truthy(Get(runner_history.d, "summary", Null))
    IN  has_profile \/ has_history

\* lines 254-258: the content of the response, parsed when it is a str
parsed_plan(response) ==
    LET content == IF IsDict(response) THEN Get(response.d, "content", Null)
                   ELSE response
    IN  IF IsStr(content)
        THEN LET loaded == JsonLoads(content)
             IN  IF IsExc(loaded) THEN Dict(<<>>) ELSE loaded
        ELSE Dict(<<>>)

\* lines 260-262
validated_action_answer(a) == Text("answer")
validated_action(a) == IF a \in valid_actions THEN a ELSE Text("answer")

\* lines 264-266
validated_info(n) == IF IsList(n) THEN n ELSE List(<<>>)

\* lines 268-270
validated_reason(r) == IF IsStr(r) THEN r ELSE Text("Defaulted to answer.")

\* lines 305-309: the dict that _plan_action returns
reason_limit == 200
info_limit == 5
planned(a, r, n) ==
    [action |-> a,
     reason |-> Text(upto(r.s, reason_limit)),
     needs_user_info |-> List(upto(n.l, info_limit))]

\* lines 86-87 and 97-98: the plan with its action forced to answer
forced_without_info(p, why) ==
    [action |-> Text("answer"), reason |-> Text(why),
     needs_user_info |-> List(<<>>)]
forced(p, why) == [p EXCEPT !.action = Text("answer"), !.reason = Text(why)]

\* lines 110-114: the clarifying question (its dash is written " - " here)
clarifying_prompt(p) ==
    LET missing == p.needs_user_info.l
    IN  IF Len(missing) > 0
        THEN IF missing[1].t = "text"
             THEN Text("I can help - quick clarifying question: "
                          \o missing[1].s \o "?")
             ELSE Exc("TypeError")
        ELSE Text("I can help - what's your main goal?")

\* lines 146-158: the answer read from the response of the model
no_answer == Text("I couldn't generate an answer.")
extracted_answer(response) ==
    IF ~IsDict(response) THEN Exc("AttributeError")
    ELSE LET content == Get(response.d, "content", Text(""))
         IN  IF Truthy(content) THEN content
             ELSE LET raw_response == Get(response.d, "raw_response", Dict(<<>>))
                      choices == Get(raw_response.d, "choices", List(<<>>))
                  IN  IF ~Truthy(choices) THEN no_answer
                      ELSE LET message == Get(choices.l[1].d, "message", Dict(<<>>))
                               first == Get(message.d, "content", Null)
                               found == IF Truthy(first) THEN first
                                        ELSE Get(message.d, "reasoning_content", Text(""))
                           IN  IF Truthy(found) THEN found ELSE no_answer

\* lines 169-171: only the last 10 exchanges are kept
history_limit == 10
last_exchanges_untrimmed(h) == h
last_exchanges(h) ==
    IF Len(h) > history_limit
    THEN SubSeq(h, Len(h) - history_limit + 1, Len(h))
    ELSE h

\* the result of a call that an exception left: lines 185-192
error_result(q, e, t) ==
    [status |-> "error", question |-> q, error |-> str(e), timestamp |-> t]

----------------------------------------------------------------------------
(* The questions, the contexts and what the language model returns *)

Questions ==
    {"What's the capital of France?",
     "y",
     " OK ",
     "what's my easy pace?",
     "can you help me plan my week ahead",
     "please help me pick good shoes for my long weekend jog near home soon",
     "also please help me pick good shoes for my long weekend jog near home",
     "please help me pick good shoes for that long weekend jog near home soon",
     "please tell me how my heart rate looked over my long weekend jog near home",
     "please tell me what my expected time would be for a half marathon sometime soon"}

\* the items a context may carry: its recent messages, what tells of a
\* running conversation, and the persona profile
RecentItems ==
    {<<>>,
     "recent_messages" :>
         List(<<Dict([role |-> Text("user"),
                      content |-> Text("How was my last run?")])>>)}
ConversationItems ==
    {<<>>,
     "last_agent" :> Text("coach"),
     "last_intent" :> Text("last_run"),
     "summary" :> Text("Steady tempo run."),
     "last_analysis_text" :> Text("Pace was even.")}
PersonaItems ==
    {<<>>,
     "persona_profile" :> Text("unknown"),
     "persona_profile" :>
         Dict([runner_profile |-> Dict([proficiency |-> Text(""),
                                        score |-> PyInt(0)]),
               runner_history |-> Null]),
     "persona_profile" :>
         Dict([runner_profile |-> Dict([proficiency |-> Text("intermediate")])]),
     "persona_profile" :>
         Dict([runner_profile |-> Dict([score |-> PyInt(72)])]),
     "persona_profile" :>
         Dict([runner_history |-> Dict([summary |-> Text("Ten runs.")])])}

\* None, {} and the dicts made of these items
Contexts ==
    {Null, Dict("recent_messages" :> List(<<>>))} \cup
    {Dict(r @@ c @@ p) :
        r \in RecentItems, c \in ConversationItems, p \in PersonaItems}

\* the longest needs_user_info and the longest reason the model returns
MaxInfo == 6
MaxReason == 201

RECURSIVE filler(_)
filler(n) ==
    IF n = 0 THEN ""
    ELSE IF n % 2 = 1 THEN "r" \o filler(n - 1)
    ELSE filler(n \div 2) \o filler(n \div 2)

InfoList(n) == List([i \in 1..n |-> Text("goal")])

\* a response whose content is the JSON text of v
Json(v) == Dict([content |-> JStr(v)])

\* the planner responses that are a JSON object
PlanObjects ==
    {Dict([action |-> Text(a), reason |-> Text("Needs a goal."),
           needs_user_info |-> InfoList(MaxInfo)]) :
        a \in {"answer", "ask_clarifying", "decline_non_running", "reject"}}
    \cup
    {Dict([action |-> Text(a), reason |-> Text(filler(MaxReason)),
           needs_user_info |-> InfoList(0)]) : a \in {"answer", "reject"}}
    \cup
    {Dict([action |-> Text(a)]) :
        a \in {"answer", "ask_clarifying", "decline_non_running"}}
    \cup
    {Dict([action |-> Text("ask_clarifying"), reason |-> PyInt(3),
           needs_user_info |-> n]) :
        n \in {InfoList(1), Text("goal"), List(<<PyInt(5)>>)}}
    \cup
    {Dict([reason |-> Text("Needs a goal.")]), Dict(<<>>)}

LlmFailure == Exc("LLMError")

\* what the planner call may return: JSON objects, JSON that is no object,
\* text that is no JSON, nothing, a bare str, or an exception
PlannerAnswers ==
    {Json(v) : v \in PlanObjects}
    \cup {Json(List(<<Text("answer")>>)), Json(PyInt(7)),
          Json(Text("answer"))}
    \cup {Dict([content |-> Text("Sure, happy to help!")]),
          Dict([content |-> Text("")]),
          Dict([content |-> Null]),
          JStr(Dict([action |-> Text("decline_non_running")])),
          LlmFailure}

\* what the answering call may return
AnswerResponses ==
    {Dict([content |-> Text("Keep the long run easy.")]),
     Dict([content |-> Text(""),
           raw_response |->
               Dict([choices |->
                   List(<<Dict([message |->
                       Dict([reasoning_content |-> Text("Run easy.")])])>>)])]),
     Dict([content |-> Text("")]),
     Text("Keep the long run easy."),
     LlmFailure}

\* the arguments of a call: the question, the context, activity_id and
\* force_answer
Arguments ==
    {<<q, c, af[1], af[2]>> :
        q \in Questions, c \in Contexts,
        af \in {<<Null, FALSE>>, <<Text("101"), TRUE>>}}

----------------------------------------------------------------------------
(***************************************************************************)
(* One call of answer_question.  An action is the code up to the next      *)
(* await, or one rule of _plan_action.                                     *)
(***************************************************************************)

\* the agent after __init__ with a call of answer_question about to start
InitPlan ==
    /\ Idle
    /\ ZIdle
    /\ WIdle
    /\ GIdle
    /\ llm = [plans |-> PlannerAnswers, answers |-> AnswerResponses]
    /\ \E args \in Arguments :
          /\ question = args[1]
          /\ context = args[2]
          /\ qa_activity_id = args[3]
          /\ force_answer = args[4]
    /\ qpc = "start"
    /\ is_coachable = FALSE
    /\ llm_response = Null
    /\ plan_json = Null
    /\ action = Null
    /\ reason = Null
    /\ needs_user_info = Null
    /\ plan = Null
    /\ result = Null
    /\ now = 1
    /\ conversation_history = <<>>
    /\ exchanges = <<>>

\* what no step of a call changes: the arguments, the model and the clock
call_frame == <<llm, question, context, qa_activity_id, force_answer, now>>

\* the call ends with an exception caught at line 185
Fails(e) ==
    /\ result' = error_result(question, e, now)
    /\ qpc' = "done"

\* lines 84 and 216-252: is_coachable, and the planner call is issued
PlanStart ==
    /\ qpc = "start"
    /\ is_coachable' = contains_any(lower(question), coachable_terms)
    /\ qpc' = "await_plan"
    /\ UNCHANGED <<call_frame, llm_response, plan_json, action, reason,
                   needs_user_info, plan, result, conversation_history,
                   exchanges, not_qvars>>

\* the planner call returns or raises: lines 248-258
PlannerReturns ==
    /\ qpc = "await_plan"
    /\ \E response \in llm.plans :
          /\ llm_response' = response
          /\ IF IsExc(response)
             THEN Fails(response) /\ UNCHANGED plan_json
             ELSE /\ plan_json' = parsed_plan(response)
                  /\ qpc' = "validate"
                  /\ UNCHANGED result
    /\ UNCHANGED <<call_frame, is_coachable, action, reason, needs_user_info,
                   plan, conversation_history, exchanges, not_qvars>>

\* lines 260-270: plan.get raises when the parsed content is not a dict
Validate ==
    /\ qpc = "validate"
    /\ IF ~IsDict(plan_json)
       THEN /\ Fails(Exc("AttributeError"))
            /\ UNCHANGED <<action, reason, needs_user_info>>
       ELSE /\ action' = validated_action(Get(plan_json.d, "action", Null))
            /\ needs_user_info' =
                  validated_info(Get(plan_json.d, "needs_user_info", Null))
            /\ reason' = validated_reason(Get(plan_json.d, "reason", Null))
            /\ qpc' = "follow_up"
            /\ UNCHANGED result
    /\ UNCHANGED <<call_frame, is_coachable, llm_response, plan_json, plan,
                   conversation_history, exchanges, not_qvars>>

\* a rule of _plan_action: when it applies the action becomes answer with
\* the reason why, and the next rule is at position next
Rule(applies, why, next) ==
    /\ IF applies
       THEN action' = Text("answer") /\ reason' = Text(why)
       ELSE UNCHANGED <<action, reason>>
    /\ qpc' = next
    /\ UNCHANGED <<call_frame, is_coachable, llm_response, plan_json,
                   needs_user_info, plan, result, conversation_history,
                   exchanges, not_qvars>>

\* lines 272-275
FollowUpRule ==
    /\ qpc = "follow_up"
    /\ Rule(/\ Truthy(context)
            /\ detect_follow_up(question, context)
            /\ action # Text("decline_non_running"),
            "Follow-up question with context.", "keyword")

\* lines 276-285
KeywordRule ==
    /\ qpc = "keyword"
    /\ Rule(/\ Truthy(context)
            /\ has_running_context(context)
            /\ contains_any(lower(question), keywords),
            "Context indicates running follow-up.", "short")

\* lines 287-289, inside the if of line 277
short_limit == 3
ShortRule ==
    /\ qpc = "short"
    /\ Rule(/\ Truthy(context)
            /\ has_running_context(context)
            /\ Len(strip(lower(question))) <= short_limit,
            "Short follow-up with context.", "profile")

\* lines 291-299
ProfileRule ==
    /\ qpc = "profile"
    /\ Rule(/\ Truthy(context)
            /\ IsDict(context_get(context, "persona_profile"))
            /\ is_coachable
            /\ profile_or_history(context_get(context, "persona_profile")),
            "Coachable question with profile/history available.",
            "coachable")

\* lines 301-309: the last rule and the return of _plan_action
CoachableRule ==
    /\ qpc = "coachable"
    /\ LET applies == is_coachable /\ action # Text("decline_non_running")
           a == IF applies THEN Text("answer") ELSE action
           r == IF applies THEN Text("Coachable question: answer best-effort.")
                ELSE reason
       IN  /\ action' = a
           /\ reason' = r
           /\ plan' = planned(a, r, needs_user_info)
    /\ qpc' = "planned"
    /\ UNCHANGED <<call_frame, is_coachable, llm_response, plan_json,
                   needs_user_info, result, conversation_history, exchanges,
                   not_qvars>>

\* lines 85-98 of answer_question: force_answer, and the profile or history
\* that replaces a clarifying question
decided(p, force, ctx) ==
    LET p1 == IF force
              THEN forced(p, "Forced answer for coachable question.")
              ELSE p
        persona_profile == context_get(ctx, "persona_profile")
    IN  IF /\ p1.action = Text("ask_clarifying")
           /\ Truthy(ctx)
           /\ IsDict(persona_profile)
           /\ profile_or_history(persona_profile)
        THEN forced(p1, "Profile/history available; answer directly.")
        ELSE p1

Decide ==
    /\ qpc = "planned"
    /\ plan' = decided(plan, force_answer, context)
    /\ qpc' = "route"
    /\ UNCHANGED <<call_frame, is_coachable, llm_response, plan_json, action,
                   reason, needs_user_info, result, conversation_history,
                   exchanges, not_qvars>>

\* line 104
decline_answer ==
    Text("I'm specialized in running coaching and training. I can help with running technique, training plans, race preparation, or recovery. What would you like to know about your running?")

\* the result of a call that declines or asks: lines 100-107 and 115-122
reply_result(q, a, t, p) ==
    [status |-> "success", agent |-> "CoachQAAgent", question |-> q,
     answer |-> a, timestamp |-> t, plan |-> p]

\* lines 99-127: the decline, the clarifying question, or the way on to the
\* answer, through get_activity_details when an activity_id is given
Route ==
    /\ qpc = "route"
    /\ IF plan.action = Text("decline_non_running")
       THEN /\ result' = reply_result(question, decline_answer, now, plan)
            /\ qpc' = "done"
       ELSE IF plan.action = Text("ask_clarifying")
       THEN \E prompt \in {clarifying_prompt(plan)} :
               IF IsExc(prompt) THEN Fails(prompt)
               ELSE /\ result' = reply_result(question, prompt, now, plan)
                    /\ qpc' = "done"
       ELSE /\ qpc' = IF Truthy(qa_activity_id) THEN "await_activity"
                      ELSE "await_answer"
            /\ UNCHANGED result
    /\ UNCHANGED <<call_frame, is_coachable, llm_response, plan_json, action,
                   reason, needs_user_info, plan, conversation_history,
                   exchanges, not_qvars>>

\* what get_activity_details answers: the details, or the exception it
\* re-raises
ActivityAnswers ==
    {Dict([activityId |-> PyInt(101), activityName |-> Text("Morning Run")]),
     ToolFailure}

\* line 127 returns or raises; lines 130-143 issue the answering call
ActivityReturns ==
    /\ qpc = "await_activity"
    /\ \E details \in ActivityAnswers :
          IF IsExc(details) THEN Fails(details)
          ELSE qpc' = "await_answer" /\ UNCHANGED result
    /\ UNCHANGED <<call_frame, is_coachable, llm_response, plan_json, action,
                   reason, needs_user_info, plan, conversation_history,
                   exchanges, not_qvars>>

\* lines 163-167: the exchange appended to conversation_history
exchange(q, a, t) == [question |-> q, answer |-> a, timestamp |-> t]

\* lines 175-183
answer_result(q, a, id, t, n, p) ==
    [status |-> "success", question |-> q, answer |-> a, activity_id |-> id,
     timestamp |-> t, conversation_length |-> n, plan |-> p]

\* the answering call returns or raises: lines 139-183
AnswerReturns ==
    /\ qpc = "await_answer"
    /\ \E response \in llm.answers :
          IF IsExc(response)
          THEN Fails(response) /\ UNCHANGED <<conversation_history, exchanges>>
          ELSE \E answer \in {extracted_answer(response)} :
                  IF IsExc(answer)
                  THEN /\ Fails(answer)
                       /\ UNCHANGED <<conversation_history, exchanges>>
                  ELSE \E history \in
                          {last_exchanges(
                              Append(conversation_history,
                                     exchange(question, answer, now)))} :
                          /\ conversation_history' = history
                          /\ exchanges' =
                                Append(exchanges,
                                       exchange(question, answer, now))
                          /\ result' =
                                answer_result(question, answer,
                                              qa_activity_id, now,
                                              Len(history), plan)
                          /\ qpc' = "done"
    /\ UNCHANGED <<call_frame, is_coachable, llm_response, plan_json, action,
                   reason, needs_user_info, plan, not_qvars>>

NextPlan ==
    \/ PlanStart
    \/ PlannerReturns
    \/ Validate
    \/ FollowUpRule
    \/ KeywordRule
    \/ ShortRule
    \/ ProfileRule
    \/ CoachableRule
    \/ Decide
    \/ Route
    \/ ActivityReturns
    \/ AnswerReturns

SpecPlan == InitPlan /\ [][NextPlan]_vars

----------------------------------------------------------------------------
(* Claims about _plan_action and answer_question *)

\* what the parsed response of the model carries under a key
ModelSaid(key) ==
    IF plan_json # Null /\ IsDict(plan_json)
    THEN Get(plan_json.d, key, Absent)
    ELSE Absent

\* the plan is a well-formed Plan
WellFormed(p) ==
    /\ p.action \in valid_actions
    /\ p.reason.t = "text" /\ Len(p.reason.s) <= 200
    /\ IsList(p.needs_user_info) /\ Len(p.needs_user_info.l) <= 5

\* _plan_action was left by an exception although the model returned
PlanRaised ==
    qpc = "done" /\ plan = Null /\ ~IsExc(llm_response)

\* C21: whatever the language model returns (a JSON object, JSON that is
\* no object, text that is no JSON, empty content) and whatever the
\* context, _plan_action never raises and returns a well-formed Plan:
\* a valid action, a reason of at most 200 characters, at most 5
\* needs_user_info items.
C21_PlanNeverRaises ==
    /\ ~PlanRaised
    /\ plan # Null => WellFormed(plan)

\* the same for the plans that are returned
C21_ReturnedPlanWellFormed ==
    /\ plan # Null => WellFormed(plan)
    /\ PlanRaised => ~IsDict(parsed_plan(llm_response))

\* C22: in the base classification, whenever parsing the response fails or
\* its action is not one of the three valid values, the base plan has
\* action "answer" and reason "Defaulted to answer.", also when the
\* response carried a reason of its own.
C22_DefaultedToAnswer ==
    (qpc = "follow_up" /\ ModelSaid("action") \notin valid_actions) =>
       /\ action = Text("answer")
       /\ reason = Text("Defaulted to answer.")

\* the same without the case of a response that carries its own reason
C22_DefaultedWithoutOwnReason ==
    (qpc = "follow_up" /\ ModelSaid("action") \notin valid_actions) =>
       /\ action = Text("answer")
       /\ ModelSaid("reason").t # "text" =>
             reason = Text("Defaulted to answer.")

\* the action of the base plan: the model's own action after lines 260-262
BaseAction == validated_action(ModelSaid("action"))

\* _plan_action has returned its plan and answer_question has not yet
\* touched it
PlanReturned == qpc = "planned" /\ plan # Null

\* the four textual signs of a follow-up, lines 35-46, without the
\* recent_messages test of lines 30-34
looks_like_follow_up(q, ctx) ==
    LET lower_q == strip(lower(q))
    IN  \/ \E i \in DOMAIN followup_starters :
              startswith(lower_q, followup_starters[i])
        \/ word_count(lower_q) <= 6
        \/ contains_any(lower_q, referential_tokens)
        \/ /\ \/ Truthy(context_get(ctx, "last_intent"))
              \/ Truthy(context_get(ctx, "summary"))
           /\ word_count(lower_q) <= 10

\* C23: whenever context is present, the message is a follow-up (it starts
\* with a continuation word, or has at most 6 words, or contains a
\* referential pronoun, or the context carries a prior intent or summary and
\* the message has at most 10 words) and the base action is not
\* decline_non_running, the plan's action is answer; the follow-up rule by
\* itself never changes a base decline_non_running.
C23_FollowUpAnswered ==
    /\ (/\ PlanReturned
        /\ Truthy(context)
        /\ looks_like_follow_up(question, context)
        /\ BaseAction # Text("decline_non_running"))
       => plan.action = Text("answer")
    /\ (qpc = "keyword" /\ BaseAction = Text("decline_non_running"))
       => action = Text("decline_non_running")

\* C23, as far as the code goes: the rule answers a follow-up only when the
\* context also carries a non-empty list of recent messages, and it leaves a
\* base decline_non_running alone.
C23_FollowUpWithRecentMessages ==
    /\ (/\ PlanReturned
        /\ Truthy(context)
        /\ looks_like_follow_up(question, context)
        /\ IsList(context_get(context, "recent_messages"))
        /\ Truthy(context_get(context, "recent_messages"))
        /\ BaseAction # Text("decline_non_running"))
       => plan.action = Text("answer")
    /\ (qpc = "keyword" /\ BaseAction = Text("decline_non_running"))
       => action = Text("decline_non_running")

\* C24: for every message that matches the coachable-topic list, with or
\* without context, the plan's action is answer whenever the base action is
\* answer or ask_clarifying, and the plan's action stays decline_non_running
\* whenever the base action was decline_non_running, whatever context or
\* profile is present.
C24_CoachableKeepsDecline ==
    (PlanReturned /\ is_coachable) =>
        plan.action = IF BaseAction = Text("decline_non_running")
                      THEN Text("decline_non_running")
                      ELSE Text("answer")

\* a rule of lines 272-299 applies to the call: none of them looks at the
\* base action
EarlierRuleApplies ==
    /\ Truthy(context)
    /\ \/ /\ has_running_context(context)
          /\ \/ contains_any(lower(question), keywords)
             \/ Len(strip(lower(question))) <= short_limit
       \/ /\ IsDict(context_get(context, "persona_profile"))
          /\ profile_or_history(context_get(context, "persona_profile"))

\* C24, as far as the code goes: a coachable message is answered when the
\* base action is answer or ask_clarifying, and a base decline_non_running
\* stays only when no rule of lines 272-299 applies.
C24_CoachableDeclineWithoutEarlierRule ==
    (PlanReturned /\ is_coachable) =>
        plan.action = IF /\ BaseAction = Text("decline_non_running")
                         /\ ~EarlierRuleApplies
                      THEN Text("decline_non_running")
                      ELSE Text("answer")

\* the context carries one of the three signs of a running conversation
RunningConversation ==
    \/ Truthy(context_get(context, "last_intent"))
    \/ Truthy(context_get(context, "last_analysis_text"))
    \/ Truthy(context_get(context, "summary"))

\* the keyword rule has just been passed, and it fired
KeywordRuleFired ==
    /\ qpc = "short"
    /\ reason = Text("Context indicates running follow-up.")

\* C25: whenever the context indicates an existing running-coaching
\* conversation (it has a last intent, a last analysis text, or a summary)
\* and the message contains a running-domain keyword, the plan's action is
\* answer for every base action; when the context carries none of the three
\* indicators, the keyword rule does not fire.
C25_KeywordOverride ==
    /\ (/\ PlanReturned
        /\ Truthy(context)
        /\ RunningConversation
        /\ contains_any(lower(question), keywords))
       => plan.action = Text("answer")
    /\ KeywordRuleFired => (Truthy(context) /\ RunningConversation)

\* C25 happens: a base decline_non_running turned into answer by a keyword,
\* in a context whose only indicator is the last analysis text
C25_Witness ==
    /\ PlanReturned
    /\ Truthy(context)
    /\ BaseAction = Text("decline_non_running")
    /\ ~is_coachable
    /\ contains_any(lower(question), keywords)
    /\ Truthy(context_get(context, "last_analysis_text"))
    /\ ~Truthy(context_get(context, "last_intent"))
    /\ ~Truthy(context_get(context, "summary"))
    /\ plan.action = Text("answer")
    /\ plan.reason = Text("Context indicates running follow-up.")

\* the trimmed message has at most 3 characters; the code lowers it first,
\* which leaves its length alone
ShortMessage == Len(strip(question)) <= 3

\* C26: whenever context exists and the trimmed message has at most 3
\* characters, the plan's action is answer for every base action the model
\* can return, decline_non_running and ask_clarifying included.
C26_ShortMessageAnswered ==
    (PlanReturned /\ Truthy(context) /\ ShortMessage)
        => plan.action = Text("answer")

\* C26, as far as the code goes: the short message is answered for every
\* base action when the context carries a last intent, a last analysis text
\* or a summary.
C26_ShortMessageInRunningConversation ==
    (PlanReturned /\ Truthy(context) /\ RunningConversation /\ ShortMessage)
        => plan.action = Text("answer")

\* the value found in a context by following a path of keys, None when a
\* step is missing or is not a dict
RECURSIVE at_path(_, _)
at_path(v, path) ==
    IF path = <<>> THEN v
    ELSE IF IsDict(v) THEN at_path(Get(v.d, Head(path), Null), Tail(path))
    ELSE Null

\* the context includes a persona profile with a proficiency or a score, or
\* a history summary
ProfileAvailable ==
    \/ Truthy(at_path(context, <<"persona_profile", "runner_profile", "proficiency">>))
    \/ Truthy(at_path(context, <<"persona_profile", "runner_profile", "score">>))
    \/ Truthy(at_path(context, <<"persona_profile", "runner_history", "summary">>))

\* the call has returned the clarifying question of lines 109-122
ClarifyingReturned ==
    /\ qpc = "done"
    /\ "plan" \in DOMAIN result
    /\ result.plan.action = Text("ask_clarifying")

\* C27: whenever the context includes a persona profile with a non-trivial
\* proficiency or score, or a history summary, an ask_clarifying decision is
\* replaced by answer, so no clarifying question is ever returned to a user
\* whose profile or history is available, for coachable and non-coachable
\* messages alike.
C27_NoClarifyingWithProfile ==
    /\ (qpc = "route" /\ ProfileAvailable /\ BaseAction = Text("ask_clarifying"))
       => plan.action = Text("answer")
    /\ ProfileAvailable => ~ClarifyingReturned

\* C27 happens: a message that is not coachable, a context whose only
\* content is the history summary, a base ask_clarifying, and the call goes
\* on to the answer
C27_Witness ==
    /\ qpc = "done"
    /\ ~is_coachable
    /\ ~force_answer
    /\ BaseAction = Text("ask_clarifying")
    /\ context = Dict("persona_profile" :>
                     Dict([runner_history |-> Dict([summary |-> Text("Ten runs.")])]))
    /\ "plan" \in DOMAIN result
    /\ result.plan.action = Text("answer")
    /\ result.plan.reason = Text("Profile/history available; answer directly.")

\* the reasons that the rules of lines 272-303 give
OverrideReasons ==
    {Text("Follow-up question with context."),
     Text("Context indicates running follow-up."),
     Text("Short follow-up with context."),
     Text("Coachable question with profile/history available."),
     Text("Coachable question: answer best-effort.")}

\* C28: when no context is passed and the message matches no coachable
\* topic, no override fires: the plan's action equals the model's action
\* whenever that action is valid, so an off-topic question the model
\* classifies as decline_non_running yields decline_non_running.
C28_NoOverrideWithoutContext ==
    (/\ PlanReturned
     /\ context = Null
     /\ ~contains_any(lower(question), coachable_terms)
     /\ ModelSaid("action") \in valid_actions)
    => /\ plan.action = ModelSaid("action")
       /\ plan.reason \notin OverrideReasons

\* C28 happens: the off-topic question, no context, and the model declines
C28_Witness ==
    /\ PlanReturned
    /\ question = "What's the capital of France?"
    /\ context = Null
    /\ ModelSaid("action") = Text("decline_non_running")
    /\ plan.action = Text("decline_non_running")

\* the needs_user_info of the base plan, as lines 264-266 and 308 leave it
BaseInfo ==
    LET n == ModelSaid("needs_user_info")
    IN  List(upto(IF IsList(n) THEN n.l ELSE <<>>, 5))

\* the rules of _plan_action are being applied
InRules == qpc \in {"follow_up", "keyword", "short", "profile", "coachable"}

\* C29: overrides only ever move the decision toward answer: for every
\* message, context and model response, the final action of the plan is
\* either the validated base action or answer; no rule produces
\* ask_clarifying or decline_non_running unless the model's own valid output
\* was that action, and needs_user_info is never altered by an override.
C29_OverridesOnlyTowardAnswer ==
    /\ InRules => action \in {BaseAction, Text("answer")}
    /\ plan # Null =>
          /\ plan.action \in {BaseAction, Text("answer")}
          /\ plan.action # Text("answer") => ModelSaid("action") = plan.action
          /\ plan.needs_user_info = BaseInfo
    /\ (qpc = "done" /\ "plan" \in DOMAIN result) =>
          /\ result.plan.action \in {BaseAction, Text("answer")}
          /\ result.plan.needs_user_info = BaseInfo

\* C29 happens: a base ask_clarifying with five questions for the user is
\* overridden in answer_question, and the five questions are still there
C29_Witness ==
    /\ qpc = "route"
    /\ BaseAction = Text("ask_clarifying")
    /\ plan.action = Text("answer")
    /\ plan.reason \in {Text("Forced answer for coachable question."),
                        Text("Profile/history available; answer directly.")}
    /\ Len(plan.needs_user_info.l) = 5

----------------------------------------------------------------------------
(***************************************************************************)
(* One CoachQAAgent over a sequence of calls.  The calls of answer_question*)
(* follow one another, and clear_history is called between two of them.    *)
(***************************************************************************)

\* the number of calls of answer_question in a sequence
MaxCalls == 12

\* a model that answers, asks, declines or fails, and an answering call
\* that answers or fails
HistoryPlans ==
    {Json(Dict([action |-> Text(a)])) :
        a \in {"answer", "ask_clarifying", "decline_non_running"}}
    \cup {LlmFailure}

HistoryAnswers ==
    {Dict([content |-> Text("Keep the long run easy.")]), LlmFailure}

HistoryArguments ==
    {<<"What's the capital of France?", Null, id, FALSE>> :
        id \in {Null, Text("101")}}

\* the agent after __init__, lines 22-27, with its first call about to start
InitHistory ==
    /\ Idle
    /\ ZIdle
    /\ WIdle
    /\ GIdle
    /\ llm = [plans |-> HistoryPlans, answers |-> HistoryAnswers]
    /\ \E args \in HistoryArguments :
          /\ question = args[1]
          /\ context = args[2]
          /\ qa_activity_id = args[3]
          /\ force_answer = args[4]
    /\ qpc = "start"
    /\ is_coachable = FALSE
    /\ llm_response = Null
    /\ plan_json = Null
    /\ action = Null
    /\ reason = Null
    /\ needs_user_info = Null
    /\ plan = Null
    /\ result = Null
    /\ now = 1
    /\ conversation_history = <<>>
    /\ exchanges = <<>>

\* the next call of answer_question on the same agent, at a later time: its
\* locals are new, self.conversation_history is what the last call left
NextQuestion ==
    /\ qpc = "done"
    /\ now < MaxCalls
    /\ now' = now + 1
    /\ \E args \in HistoryArguments :
          /\ question' = args[1]
          /\ context' = args[2]
          /\ qa_activity_id' = args[3]
          /\ force_answer' = args[4]
    /\ qpc' = "start"
    /\ is_coachable' = FALSE
    /\ llm_response' = Null
    /\ plan_json' = Null
    /\ action' = Null
    /\ reason' = Null
    /\ needs_user_info' = Null
    /\ plan' = Null
    /\ result' = Null
    /\ UNCHANGED <<llm, conversation_history, exchanges, not_qvars>>

\* clear_history, lines 515-518; exchanges restarts with it
ClearHistory ==
    /\ qpc = "done"
    /\ conversation_history' = <<>>
    /\ exchanges' = <<>>
    /\ UNCHANGED <<call_frame, qpc, is_coachable, llm_response, plan_json,
                   action, reason, needs_user_info, plan, result, not_qvars>>

NextHistory ==
    \/ NextPlan
    \/ NextQuestion
    \/ ClearHistory

SpecHistory == InitHistory /\ [][NextHistory]_vars

\* the call that has just ended gave an answer
Answered(r) ==
    /\ r # Null
    /\ r.status = "success"
    /\ r.plan.action = Text("answer")

\* the last n elements of a sequence, all of it when it is shorter
most_recent(h, n) == SubSeq(h, IF Len(h) > n THEN Len(h) - n + 1 ELSE 1, Len(h))

\* what a step may do to conversation_history
HistoryStep ==
    /\ (qpc # "done" /\ qpc' # "done") => UNCHANGED conversation_history
    /\ (qpc = "done" /\ qpc' = "start") => UNCHANGED conversation_history
    /\ (qpc # "done" /\ qpc' = "done") =>
          IF Answered(result')
          THEN conversation_history' =
                  most_recent(Append(conversation_history,
                                     [question |-> question,
                                      answer |-> result'.answer,
                                      timestamp |-> now]), 10)
          ELSE UNCHANGED conversation_history
    /\ (qpc = "done" /\ qpc' = "done") => conversation_history' = <<>>

\* C30: after any sequence of answer_question calls on one CoachQAAgent,
\* conversation_history holds at most 10 exchanges, namely the most recent
\* answered ones in order; a call that ends in decline_non_running, in
\* ask_clarifying or in an error leaves conversation_history unchanged, and
\* clear_history empties it.
C30_HistoryBounded ==
    /\ [](/\ Len(conversation_history) <= 10
          /\ conversation_history = most_recent(exchanges, 10))
    /\ [][HistoryStep]_vars

\* C30 happens: more than 10 calls were answered, a later call was declined,
\* and the history holds 10 exchanges of which the oldest is not the first
C30_Witness ==
    /\ qpc = "done"
    /\ Len(exchanges) > 10
    /\ Len(conversation_history) = 10
    /\ conversation_history[1].timestamp > 1
    /\ result.status = "success"
    /\ result.plan.action = Text("decline_non_running")

============================================================================
